---- MODULE Spec2Model ----
(***************************************************************************)
(* A model of the "mi-pago" wallet backend: the account ledger, the credit *)
(* disbursement, the internal and external transfers and the login lockout.*)
(*                                                                         *)
(* Every service method is an async function.  Node runs it until the next *)
(* `await` of a store call, so a request is a process whose steps are the  *)
(* store calls it awaits: one action = the store call taking effect plus   *)
(* the code that runs until the next store call is issued.  Requests of    *)
(* different processes interleave between these steps.                     *)
(*                                                                         *)
(* A store call may fail (the supabase client returns an error, which the  *)
(* repositories rethrow as DatabaseError); a failed call changes no row.   *)
(***************************************************************************)
EXTENDS Integers, Sequences, FiniteSets, TLC

\* ------------------------------------------------------------------ bounds
\* Largest balance an accepted deposit may produce (deposits above are not issued).
MaxBalance == 2
\* Largest amount of a request.
MaxMonto == 2
\* Saturation of the ledger drift (perdido) kept for the accounting check.
MaxDrift == 1
\* Largest principal of a credit.
MaxCredito == 1
\* Disbursements of one credit after which no further one is requested.
MaxDesembolsos == 2
\* Last instant of the clock (the clock ticks in half hours).
MaxAhora == 4

\* ----------------------------------------------------------- program constants
\* 60 * 60 * 1000 ms, in clock ticks of half an hour.
LockTicks == 2
\* Failed attempts that lock the account.
MaxIntentos == 5
\* Money is counted in units of 10 000 pesos.
\* The daily transfer limit without KYC (10000) and with KYC (50000).
LimiteSinKYC == 1
LimiteConKYC == 5

\* The failed logins counted in a row (the count stays at this bound).
MaxRacha == 6

Procs == {"p1", "p2"}
\* Accounts that requests name as their own account.
Origenes == {"u1"}
\* Internal destinations: "u2" exists, "u9" is no account.
Destinos == {"u2", "u9"}
Usuarios == {"u1", "u2"}
CreditIds == {"c1"}
Montos == 0..MaxMonto

PREAPPROVED == "preaprobado"
IN_PROGRESS == "en_curso"
ACREDITADA == "acreditada"
DEFAULT == "en_mora"

\* enum KYCStatus
PENDIENTE == "pendiente"
APROBADO == "aprobado"
RECHAZADO == "rechazado"

\* SQL NULL / a missing optional: the empty sequence; a value v is <<v>>.
None == <<>>
Some(v) == <<v>>

VARIABLES
    cuentas,        \* table user_accounts: usuario_id -> row
    creditos,       \* table creditos: id_credito -> row
    transferencias, \* table transferencias: sequence of rows (TransfersRepository.createTransfer
                    \*   has no caller: no request inserts a row)
    proc,           \* the requests in flight, one per process
    ahora,          \* the clock (Date.now())
    serial,         \* TRUE: requests are served one at a time
    config,         \* config.features, read from the environment when the process starts
    antes,          \* history: balance of the request's own account when it began (serial runs)
    perdido,        \* history: per own account, (sum of the deltas of the successful
                    \*   mutations) - (the balance), saturated at +-MaxDrift
    racha,          \* history: per own account, the logins answered "invalid credentials"
                    \*   in a row since the last successful login or unlock
    tokens,         \* table password_reset_tokens: token -> row
    documentos,     \* table kyc_documents: set of rows
    cuotas          \* table cuotas: id_credito -> the importes of its installments

vars == <<cuentas, creditos, transferencias, proc, ahora, serial, config, tokens, documentos, cuotas, antes, perdido, racha>>

\* ------------------------------------------------------------- strings
Digits == {"0", "1", "2", "3", "4", "5", "6", "7", "8", "9"}
Whitespace == {" "}

Rep(c, n) == [i \in 1..n |-> c]

\* cuenta.replace(/\s+/g, '')
Clean(s) == SelectSeq(s, LAMBDA c : c \notin Whitespace)

\* /^\d{n}$/.test(s)
IsDigits(s, n) == Len(s) = n /\ \A i \in 1..Len(s) : s[i] \in Digits

\* The three digits of a bank code
Codigo(n) ==
    LET Digito(d) == CASE d = 0 -> "0" [] d = 1 -> "1" [] d = 2 -> "2" [] d = 3 -> "3"
                       [] d = 4 -> "4" [] d = 5 -> "5" [] d = 6 -> "6" [] d = 7 -> "7"
                       [] d = 8 -> "8" [] OTHER -> "9" IN
    <<Digito(n \div 100), Digito((n \div 10) % 10), Digito(n % 10)>>

\* The keys of bankMap: '000', '001', '002', '005', '006', '007', '011', '014',
\* '016', '017', '020', '023' and '026' to '046'
bankMap == {Codigo(n) : n \in {0, 1, 2, 5, 6, 7, 11, 14, 16, 17, 20, 23} \cup (26..46)}

\* A variant of validateCBUFormat that tests the length alone.
validateCBUFormatSoloLargo(cbu) ==
    LET cleanCBU == Clean(cbu) IN
    IF Len(cleanCBU) # 22
    THEN [es_valido |-> FALSE, cbu |-> cleanCBU, razon_invalido |-> "CBU must be 22 digits",
          banco |-> ""]
    ELSE [es_valido |-> TRUE, cbu |-> cleanCBU, razon_invalido |-> "",
          banco |-> IF SubSeq(cleanCBU, 1, 3) \in bankMap THEN "bankMap[bankCode]"
                    ELSE "Banco Desconocido"]

validateCBUFormat(cbu) ==
    LET cleanCBU == Clean(cbu) IN
    IF ~IsDigits(cleanCBU, 22)
    THEN [es_valido |-> FALSE, cbu |-> cleanCBU, razon_invalido |-> "CBU must be 22 digits",
          banco |-> ""]
    ELSE [es_valido |-> TRUE, cbu |-> cleanCBU, razon_invalido |-> "",
          banco |-> IF SubSeq(cleanCBU, 1, 3) \in bankMap THEN "bankMap[bankCode]"
                    ELSE "Banco Desconocido"]

validateCVUFormat(cvu) ==
    LET cleanCVU == Clean(cvu) IN
    IF ~IsDigits(cleanCVU, 10)
    THEN [es_valido |-> FALSE, cbu |-> cleanCVU, razon_invalido |-> "CVU must be 10 digits"]
    ELSE [es_valido |-> TRUE, cbu |-> cleanCVU, razon_invalido |-> ""]

validateExternalAccount(cuenta) ==
    LET cleanCuenta == Clean(cuenta) IN
    IF Len(cleanCuenta) = 22 THEN validateCBUFormat(cleanCuenta)
    ELSE IF Len(cleanCuenta) = 10 THEN validateCVUFormat(cleanCuenta)
    ELSE [es_valido |-> FALSE, cbu |-> cleanCuenta,
          razon_invalido |-> "Account number must be 22 digits (CBU) or 10 digits (CVU)"]

\* '00000000000000000000001': 22 zeros and a one
blockedAccounts == {Rep("0", 22) \o <<"1">>}

isExternalAccountActive(cbu) == cbu \notin blockedAccounts

\* The external destinations requests name: a CBU, a CBU of a bank code that
\* bankMap does not have, a CVU written with a blank, a 22-character string
\* with a letter, a 9-digit string, the blocked account.
CuentasExternas ==
    { Rep("0", 3) \o Rep("7", 19),
      Rep("9", 22),
      Rep("4", 5) \o <<" ">> \o Rep("4", 5),
      Rep("1", 21) \o <<"x">>,
      Rep("9", 9),
      Rep("0", 22) \o <<"1">> }

\* ------------------------------------------------------------- the store
\* UserAccountsRepository.findByUserId: the row, or null.
findByUserId(userId) ==
    IF userId \in DOMAIN cuentas THEN Some(cuentas[userId]) ELSE None

\* UserAccountsRepository.update: the table after the update.  The supabase
\* client sends the updates as JSON, so a property whose value is `undefined`
\* is not sent and its column keeps its value: callers leave such properties
\* out of `updates`.
update(userId, updates) ==
    [cuentas EXCEPT ![userId] = updates @@ @]

updateBalance(userId, newBalance) ==
    update(userId, [saldo_disponible |-> newBalance])

\* CreditsRepository.findCreditById
findCreditById(creditId) ==
    IF creditId \in DOMAIN creditos THEN Some(creditos[creditId]) ELSE None

\* CreditsRepository.updateCredit
updateCredit(creditId, updates) ==
    [creditos EXCEPT ![creditId] = updates @@ @]

RECURSIVE SumMontos(_)
SumMontos(s) == IF s = <<>> THEN 0 ELSE s[1].monto + SumMontos(Tail(s))

\* TransfersRepository.getTransfersByUserIdAndDate (every row of the model is of today)
getTransfersByUserIdAndDate(userId) ==
    SelectSeq(transferencias, LAMBDA t : t.usuario_id_origen = userId)

\* TransfersService.getDailyTransferTotal
getDailyTransferTotal(usuarioId) ==
    SumMontos(SelectSeq(getTransfersByUserIdAndDate(usuarioId),
                        LAMBDA t : t.estado = ACREDITADA))

\* TransferHandler.getTransferLimits / checkLimitsPreview:
\* const limite_actual = account.kyc_completo ? 50000 : 10000
limite_actual(account) == IF account.kyc_completo THEN LimiteConKYC ELSE LimiteSinKYC

\* const disponible = Math.max(0, limite_actual - usedToday)
disponible(usuario_id) ==
    LET resto == limite_actual(cuentas[usuario_id]) - getDailyTransferTotal(usuario_id) IN
    IF resto > 0 THEN resto ELSE 0

\* A row of user_accounts as createUserAccount inserts it (the other columns
\* take the defaults of the schema).
NuevaCuenta ==
    [ saldo_disponible |-> 0, kyc_completo |-> FALSE, bloqueado |-> FALSE,
      intentos_fallidos |-> 0, fecha_proximo_intento |-> None,
      password_hash |-> None, kyc_status |-> PENDIENTE,
      limite_transferencia |-> LimiteSinKYC, fecha_registro |-> 0,
      historial_mora |-> FALSE, ingresos_declarados |-> None,
      score_externo |-> None,
      \* history: blockAccount was called and unblockAccount was not called since
      bloqueo_manual |-> FALSE ]

\* UserAccountsRepository.updatePassword
updatePassword(userId, passwordHash) ==
    update(userId, [password_hash |-> Some(passwordHash)])

\* A variant of unblockAccount that lowers the flag and keeps the counter.
unblockAccountSoloFlag(userId) ==
    update(userId, [bloqueado |-> FALSE])

\* UserAccountsRepository.unblockAccount: update(userId, {bloqueado: false,
\* intentos_fallidos: 0, fecha_proximo_intento: undefined}); the undefined
\* property is not sent.
unblockAccount(userId) ==
    update(userId, [bloqueado |-> FALSE, intentos_fallidos |-> 0])

\* UserAccountsRepository.resetFailedLoginAttempts: update(userId,
\* {intentos_fallidos: 0, fecha_proximo_intento: undefined})
resetFailedLoginAttempts(userId) ==
    update(userId, [intentos_fallidos |-> 0])

\* A variant of the threshold that blocks one attempt later.
shouldBlockLate(newAttempts) == newAttempts >= MaxIntentos + 1

\* recordFailedLoginAttempt: const shouldBlock = newAttempts >= 5
shouldBlock(newAttempts) == newAttempts >= MaxIntentos

\* A variant of the expiry test that takes every block for expired.
bloqueoExpiradoAlways(fecha_proximo_intento, now) == TRUE

\* isAccountBlocked: account.fecha_proximo_intento &&
\*   new Date(account.fecha_proximo_intento) <= new Date()
bloqueoExpirado(fecha_proximo_intento, now) ==
    fecha_proximo_intento # None /\ fecha_proximo_intento[1] <= now

\* ------------------------------------------------------------- passwords
\* The passwords of the requests: two of 8 characters, one of 7.
Claves == {Rep("a", 8), Rep("b", 8)}
ClaveCorta == Rep("c", 7)
\* crypto.randomBytes(16).toString('hex')
Salts == {"5a17"}

\* crypto.pbkdf2Sync(password, salt, 1000, 64, 'sha512'): a digest that
\* determines, and is determined by, the password and the salt.
pbkdf2Sync(password, salt) == <<password, salt>>

\* `${salt}.${hash}`
hashPassword(password, salt) == <<salt, pbkdf2Sync(password, salt)>>

\* const [salt, hash] = passwordHash.split('.'); hash === hashVerify
verifyPassword(password, passwordHash) ==
    /\ Len(passwordHash) = 2
    /\ passwordHash[2] = pbkdf2Sync(password, passwordHash[1])

\* ------------------------------------------------------------- processes
Idle ==
    [ op |-> "none", pc |-> "idle", usuario |-> "-", destino |-> "-", cbu |-> <<>>,
      cuenta |-> "-", monto |-> 0, credito |-> "-", estado |-> "-", leido |-> 0,
      clave |-> <<>>, inicio |-> 0, intentos |-> 0, fecha |-> <<>>, res |-> "-",
      bloqueo |-> "-", token |-> "-", motivo |-> <<>>, tipo |-> "-", plazo |-> 0,
      simulacion |-> <<>>, account |-> <<>>, fraudRisks |-> {},
      monto_destino |-> 0, oferta |-> FALSE ]

\* A request may begin on an idle process; in a serial run, only when no
\* other request is in flight.
CanBegin(p) ==
    /\ proc[p].pc = "idle"
    /\ serial => \A q \in Procs : proc[q].pc = "idle"

Snapshot(u) ==
    IF serial /\ u \in DOMAIN cuentas THEN cuentas[u].saldo_disponible ELSE 0

\* The request is answered with res; its locals are gone.
Done(r, res) ==
    [Idle EXCEPT !.op = r.op, !.pc = "done", !.usuario = r.usuario, !.cbu = r.cbu,
                 !.credito = r.credito, !.clave = r.clave, !.inicio = r.inicio,
                 !.oferta = r.oferta, !.res = res]
Step(p, r)   == proc' = [proc EXCEPT ![p] = r]

\* The request is answered with res; its record keeps what the call was given
\* and what it read.
Fin(r, res) == [r EXCEPT !.pc = "done", !.res = res]

Clip(d) == IF d > MaxDrift THEN MaxDrift ELSE IF d < -MaxDrift THEN -MaxDrift ELSE d

\* The ledger drift after a write of (leido + delta) over the current balance:
\* the sum of the deltas grows by delta, the balance becomes leido + delta.
Drift(u, leido) ==
    IF u \in DOMAIN perdido
    THEN [perdido EXCEPT ![u] = Clip(@ + cuentas[u].saldo_disponible - leido)]
    ELSE perdido

Init ==
    /\ cuentas = [u \in Usuarios |-> NuevaCuenta]
    /\ creditos = [c \in {} |-> 0]
    /\ transferencias = <<>>
    /\ proc = [p \in Procs |-> Idle]
    /\ ahora = 0
    /\ serial = FALSE
    /\ config = [enableExternalScoring |-> FALSE]
    /\ antes = 0
    /\ perdido = [u \in Origenes |-> 0]
    /\ racha = [u \in Origenes |-> 0]
    /\ tokens = [t \in {} |-> 0]
    /\ documentos = {}
    /\ cuotas = [c \in {} |-> 0]

\* ------------------------------------------------ UserAccountsService.addFunds
\* What an error thrown by addFunds becomes in the caller that awaits it.
AfThrow(r, e) ==
    CASE r.op \in {"handleTransfer", "confirmTransferWithCredit"} -> Done(r, "Transfer failed")
           \* transferFunds: catch -> {exito: false}; no re-credit of the origin
      [] r.op = "executeExternalTransfer" -> Done(r, "External transfer error")
           \* thrown inside the inner catch: the outer catch rethrows
      [] OTHER -> Done(r, e)

\* What the caller does once addFunds returned.
AfReturn(r) ==
    CASE r.op = "handleTransfer" -> Done(r, "transferencia_directa")
      [] r.op = "confirmTransferWithCredit" -> Done(r, "transferencia_con_credito")
      [] r.op = "executeExternalTransfer" -> Done(r, "Transfer execution failed")
      [] OTHER -> Done(r, "ok")

\* const account = await this.getUserAccount(userId); the amount check; newBalance.
\* A deposit that would take the balance above MaxBalance is not followed further.
AfRead(p) ==
    /\ proc[p].pc = "af_read"
    /\ \E dbOk \in BOOLEAN :
        LET r == proc[p]
            account == findByUserId(r.cuenta) IN
        IF ~dbOk THEN Step(p, AfThrow(r, "DatabaseError"))
        ELSE IF account = None THEN Step(p, AfThrow(r, "NotFoundError"))
        ELSE IF r.monto <= 0 THEN Step(p, AfThrow(r, "ValidationError"))
        ELSE /\ account[1].saldo_disponible + r.monto <= MaxBalance
             /\ Step(p, [r EXCEPT !.pc = "af_write", !.leido = account[1].saldo_disponible])
    /\ UNCHANGED <<cuentas, creditos, transferencias, ahora, serial, config, tokens, documentos, cuotas, racha, antes, perdido>>

\* return this.userAccountsRepository.updateBalance(userId, newBalance)
AfWrite(p) ==
    /\ proc[p].pc = "af_write"
    /\ LET r == proc[p] IN
       \/ /\ cuentas' = updateBalance(r.cuenta, r.leido + r.monto)
          /\ perdido' = Drift(r.cuenta, r.leido)
          /\ Step(p, AfReturn(r))
       \/ /\ Step(p, AfThrow(r, "DatabaseError"))
          /\ UNCHANGED <<cuentas, perdido>>
    /\ UNCHANGED <<creditos, transferencias, ahora, serial, config, tokens, documentos, cuotas, racha, antes>>

BeginAddFunds(p) ==
    /\ CanBegin(p)
    /\ \E u \in Origenes, m \in Montos :
        /\ antes' = Snapshot(u)
        /\ IF m = 0   \* UserAccountsHandler.addFunds: !monto
           THEN Step(p, Done([Idle EXCEPT !.op = "addFunds", !.usuario = u], "ValidationError"))
           ELSE Step(p, [Idle EXCEPT !.op = "addFunds", !.pc = "af_read",
                                     !.usuario = u, !.cuenta = u, !.monto = m])
    /\ UNCHANGED <<cuentas, creditos, transferencias, ahora, serial, config, tokens, documentos, cuotas, racha, perdido>>

\* --------------------------------------------- UserAccountsService.removeFunds
RfThrow(r, e) ==
    CASE r.op \in {"handleTransfer", "confirmTransferWithCredit"} -> Done(r, "Transfer failed")
      [] r.op = "executeExternalTransfer" ->
           \* catch (error) { await this.userAccountsService.addFunds(usuario_id, monto) ...
           [r EXCEPT !.pc = "af_read", !.cuenta = r.usuario]
      [] OTHER -> Done(r, e)

RfReturn(r) ==
    CASE r.op \in {"handleTransfer", "confirmTransferWithCredit"} ->
           [r EXCEPT !.pc = "af_read", !.cuenta = r.destino]
      [] r.op = "executeExternalTransfer" -> Done(r, ACREDITADA)
      [] OTHER -> Done(r, "ok")

\* A variant of removeFunds without its balance check.
RfInsufficientNever(saldo, amount) == FALSE

\* The balance check of removeFunds.
RfInsufficient(saldo, amount) == saldo < amount

RfRead(p) ==
    /\ proc[p].pc = "rf_read"
    /\ \E dbOk \in BOOLEAN :
        LET r == proc[p]
            account == findByUserId(r.cuenta) IN
        IF ~dbOk THEN Step(p, RfThrow(r, "DatabaseError"))
        ELSE IF account = None THEN Step(p, RfThrow(r, "NotFoundError"))
        ELSE IF r.monto <= 0 THEN Step(p, RfThrow(r, "ValidationError"))
        ELSE IF RfInsufficient(account[1].saldo_disponible, r.monto)
             THEN Step(p, RfThrow(r, "ValidationError"))
        ELSE Step(p, [r EXCEPT !.pc = "rf_write", !.leido = account[1].saldo_disponible])
    /\ UNCHANGED <<cuentas, creditos, transferencias, ahora, serial, config, tokens, documentos, cuotas, racha, antes, perdido>>

RfWrite(p) ==
    /\ proc[p].pc = "rf_write"
    /\ LET r == proc[p] IN
       \/ /\ cuentas' = updateBalance(r.cuenta, r.leido - r.monto)
          /\ perdido' = Drift(r.cuenta, r.leido)
          /\ Step(p, RfReturn(r))
       \/ /\ Step(p, RfThrow(r, "DatabaseError"))
          /\ UNCHANGED <<cuentas, perdido>>
    /\ UNCHANGED <<creditos, transferencias, ahora, serial, config, tokens, documentos, cuotas, racha, antes>>

BeginRemoveFunds(p) ==
    /\ CanBegin(p)
    /\ \E u \in Origenes, m \in Montos :
        /\ antes' = Snapshot(u)
        /\ Step(p, [Idle EXCEPT !.op = "removeFunds", !.pc = "rf_read",
                                !.usuario = u, !.cuenta = u, !.monto = m])
    /\ UNCHANGED <<cuentas, creditos, transferencias, ahora, serial, config, tokens, documentos, cuotas, racha, perdido>>

\* ------------------------------------ UserAccountsService.updateAccountBalance
BeginUpdateAccountBalance(p) ==
    /\ CanBegin(p)
    /\ \E u \in Origenes, m \in (Montos \cup {-1}) :
        /\ antes' = Snapshot(u)
        /\ Step(p, [Idle EXCEPT !.op = "updateAccountBalance", !.pc = "ub_read",
                                !.usuario = u, !.cuenta = u, !.monto = m])
    /\ UNCHANGED <<cuentas, creditos, transferencias, ahora, serial, config, tokens, documentos, cuotas, racha, perdido>>

UbRead(p) ==
    /\ proc[p].pc = "ub_read"
    /\ \E dbOk \in BOOLEAN :
        LET r == proc[p]
            account == findByUserId(r.cuenta) IN
        IF ~dbOk THEN Step(p, Done(r, "DatabaseError"))
        ELSE IF account = None THEN Step(p, Done(r, "NotFoundError"))
        ELSE IF r.monto < 0 THEN Step(p, Done(r, "ValidationError"))
        ELSE Step(p, [r EXCEPT !.pc = "ub_write"])
    /\ UNCHANGED <<cuentas, creditos, transferencias, ahora, serial, config, tokens, documentos, cuotas, racha, antes, perdido>>

UbWrite(p) ==
    /\ proc[p].pc = "ub_write"
    /\ LET r == proc[p] IN
       \/ /\ cuentas' = updateBalance(r.cuenta, r.monto)
          /\ perdido' = [perdido EXCEPT ![r.cuenta] = 0]
          /\ Step(p, Done(r, "ok"))
       \/ /\ Step(p, Done(r, "DatabaseError"))
          /\ UNCHANGED <<cuentas, perdido>>
    /\ UNCHANGED <<creditos, transferencias, ahora, serial, config, tokens, documentos, cuotas, racha, antes>>

\* -------------------------- TransferHandler.handleTransfer / BankingAPI.transferFunds
BeginHandleTransfer(p) ==
    /\ CanBegin(p)
    /\ \E u \in Origenes, d \in Destinos, m \in Montos :
        /\ antes' = Snapshot(u)
        /\ LET r == [Idle EXCEPT !.op = "handleTransfer", !.usuario = u, !.destino = d,
                                 !.cuenta = u, !.monto = m] IN
           IF m = 0        \* !monto_destino
           THEN Step(p, Done(r, "ValidationError"))
           ELSE Step(p, [r EXCEPT !.pc = "ht_getBalance"])
    /\ UNCHANGED <<cuentas, creditos, transferencias, ahora, serial, config, tokens, documentos, cuotas, racha, perdido>>

\* const currentBalance = await this.userAccountsService.getBalance(usuario_id)
HtGetBalance(p) ==
    /\ proc[p].pc = "ht_getBalance"
    /\ \E dbOk \in BOOLEAN :
        LET r == proc[p]
            account == findByUserId(r.usuario) IN
        IF ~dbOk THEN Step(p, Done(r, "DatabaseError"))
        ELSE IF account = None THEN Step(p, Done(r, "NotFoundError"))
        ELSE IF account[1].saldo_disponible >= r.monto
             THEN Step(p, [r EXCEPT !.pc = "tf_getBalance"])
             ELSE Step(p, Done(r, "saldo_insuficiente_oferta_credito"))
    /\ UNCHANGED <<cuentas, creditos, transferencias, ahora, serial, config, tokens, documentos, cuotas, racha, antes, perdido>>

\* transferFunds: const senderBalance = await this.userAccountsService.getBalance(fromUserId)
TfGetBalance(p) ==
    /\ proc[p].pc = "tf_getBalance"
    /\ \E dbOk \in BOOLEAN :
        LET r == proc[p]
            account == findByUserId(r.usuario) IN
        IF ~dbOk \/ account = None THEN Step(p, Done(r, "Transfer failed"))
        ELSE IF account[1].saldo_disponible < r.monto
             THEN Step(p, Done(r, "Sender has insufficient balance"))
             ELSE Step(p, [r EXCEPT !.pc = "rf_read", !.cuenta = r.usuario])
    /\ UNCHANGED <<cuentas, creditos, transferencias, ahora, serial, config, tokens, documentos, cuotas, racha, antes, perdido>>

\* ------------------------------------------- BankingAPI.executeExternalTransfer
BeginExternalTransfer(p) ==
    /\ CanBegin(p)
    /\ \E u \in Origenes, c \in CuentasExternas, m \in Montos :
        /\ antes' = Snapshot(u)
        /\ LET r == [Idle EXCEPT !.op = "executeExternalTransfer", !.usuario = u,
                                 !.cbu = c, !.cuenta = u, !.monto = m]
               validation == validateExternalAccount(c) IN
           IF ~validation.es_valido
           THEN Step(p, Done(r, validation.razon_invalido))
           ELSE IF ~isExternalAccountActive(validation.cbu)
           THEN Step(p, Done(r, "Destination account is inactive"))
           ELSE Step(p, [r EXCEPT !.pc = "et_getBalance", !.cbu = <<>>])
    /\ UNCHANGED <<cuentas, creditos, transferencias, ahora, serial, config, tokens, documentos, cuotas, racha, perdido>>

\* const senderBalance = await this.userAccountsService.getBalance(request.usuario_id)
EtGetBalance(p) ==
    /\ proc[p].pc = "et_getBalance"
    /\ \E dbOk \in BOOLEAN :
        LET r == proc[p]
            account == findByUserId(r.usuario) IN
        IF ~dbOk \/ account = None THEN Step(p, Done(r, "External transfer error"))
        ELSE IF account[1].saldo_disponible < r.monto
             THEN Step(p, Done(r, "Insufficient balance"))
             ELSE Step(p, [r EXCEPT !.pc = "rf_read", !.cuenta = r.usuario])
    /\ UNCHANGED <<cuentas, creditos, transferencias, ahora, serial, config, tokens, documentos, cuotas, racha, antes, perdido>>

\* --------------------------------------------- CreditsService.createQuickCredit
\* The credit row as createQuickCredit inserts it (the columns the
\* disbursement reads), under a fresh id.
CreateQuickCredit ==
    /\ \E p \in Procs : CanBegin(p)
    /\ \E c \in CreditIds \ DOMAIN creditos, u \in Origenes, m \in 1..MaxCredito :
        creditos' = (c :> [usuario_id |-> u, monto_solicitado |-> m,
                           estado |-> PREAPPROVED, fecha_desembolso |-> None,
                           desembolsos |-> 0]) @@ creditos
    /\ UNCHANGED <<cuentas, transferencias, proc, ahora, serial, config, tokens, documentos, cuotas, racha, antes, perdido>>

\* -------------------------------------- CreditsService.approveCreditAndDisburse
BeginApprove(p) ==
    /\ CanBegin(p)
    /\ \E c \in CreditIds :
        /\ c \in DOMAIN creditos => creditos[c].desembolsos < MaxDesembolsos
        /\ antes' = 0
        /\ Step(p, [Idle EXCEPT !.op = "approveCreditAndDisburse", !.pc = "ap_findCredit",
                                !.credito = c])
    /\ UNCHANGED <<cuentas, creditos, transferencias, ahora, serial, config, tokens, documentos, cuotas, racha, perdido>>

\* const credit = await this.creditsRepository.findCreditById(creditId)
ApFindCredit(p) ==
    /\ proc[p].pc = "ap_findCredit"
    /\ \E dbOk \in BOOLEAN :
        LET r == proc[p]
            credit == findCreditById(r.credito) IN
        IF ~dbOk THEN Step(p, Done(r, "DatabaseError")) /\ UNCHANGED antes
        ELSE IF credit = None THEN Step(p, Done(r, "ValidationError")) /\ UNCHANGED antes
        ELSE /\ Step(p, [r EXCEPT !.pc = "ap_getBalance", !.usuario = credit[1].usuario_id,
                                  !.cuenta = credit[1].usuario_id,
                                  !.monto = credit[1].monto_solicitado,
                                  !.estado = credit[1].estado])
             /\ antes' = Snapshot(credit[1].usuario_id)
    /\ UNCHANGED <<cuentas, creditos, transferencias, ahora, serial, config, tokens, documentos, cuotas, racha, perdido>>

\* A disbursement that never finds the balance short.
ApInsufficientNunca(userBalance, monto_solicitado) == FALSE

\* The balance check of approveCreditAndDisburse.
ApInsufficient(userBalance, monto_solicitado) == userBalance < monto_solicitado

\* const userBalance = await this.userAccountsRepository.getBalance(credit.usuario_id)
ApGetBalance(p) ==
    /\ proc[p].pc = "ap_getBalance"
    /\ \E dbOk \in BOOLEAN :
        LET r == proc[p]
            account == findByUserId(r.usuario) IN
        IF ~dbOk THEN Step(p, Done(r, "DatabaseError"))
        ELSE IF account = None THEN Step(p, Done(r, "NotFoundError"))
        ELSE IF ApInsufficient(account[1].saldo_disponible, r.monto)
             THEN Step(p, Done(r, "InsufficientFundsError"))
        ELSE Step(p, [r EXCEPT !.pc = "ap_updateBalance", !.leido = account[1].saldo_disponible])
    /\ UNCHANGED <<cuentas, creditos, transferencias, ahora, serial, config, tokens, documentos, cuotas, racha, antes, perdido>>

\* await this.userAccountsRepository.updateBalance(credit.usuario_id, newBalance)
ApUpdateBalance(p) ==
    /\ proc[p].pc = "ap_updateBalance"
    /\ LET r == proc[p] IN
       \/ /\ cuentas' = updateBalance(r.usuario, r.leido - r.monto)
          /\ perdido' = Drift(r.usuario, r.leido)
          /\ creditos' = [creditos EXCEPT ![r.credito].desembolsos = @ + 1]
          /\ Step(p, [r EXCEPT !.pc = "ap_updateCredit", !.leido = 0])
       \/ /\ Step(p, Done(r, "DatabaseError"))
          /\ UNCHANGED <<cuentas, perdido, creditos>>
    /\ UNCHANGED <<transferencias, ahora, serial, config, tokens, documentos, cuotas, racha, antes>>

\* What the caller does once approveCreditAndDisburse returned:
\* confirmTransferWithCredit goes on to transferFunds(usuario_id, cuenta_destino,
\* monto_destino) (the credits of the model are the requesting user's own).
ApReturn(r) ==
    IF r.op = "confirmTransferWithCredit"
    THEN [r EXCEPT !.pc = "tf_getBalance", !.cuenta = r.usuario, !.monto = r.monto_destino,
                   !.leido = 0, !.estado = "-"]
    ELSE Done(r, "ok")

\* await this.creditsRepository.updateCredit(creditId, {estado, fecha_desembolso})
ApUpdateCredit(p) ==
    /\ proc[p].pc = "ap_updateCredit"
    /\ LET r == proc[p] IN
       \/ /\ creditos' = updateCredit(r.credito, [estado |-> IN_PROGRESS,
                                                  fecha_desembolso |-> Some(ahora)])
          /\ Step(p, ApReturn(r))
       \/ /\ Step(p, Done(r, "DatabaseError"))
          /\ UNCHANGED creditos
    /\ UNCHANGED <<cuentas, transferencias, ahora, serial, config, tokens, documentos, cuotas, racha, antes, perdido>>

\* ------------------------------------------ UserAccountsService.updatePassword
UpdatePassword(p) ==
    /\ CanBegin(p)
    /\ \E u \in Origenes, newPassword \in Claves \cup {ClaveCorta}, salt \in Salts :
        LET r == [Idle EXCEPT !.op = "updatePassword", !.usuario = u] IN
        IF Len(newPassword) < 8
        THEN Step(p, Done(r, "ValidationError")) /\ UNCHANGED cuentas
        ELSE \/ /\ cuentas' = updatePassword(u, hashPassword(newPassword, salt))
                /\ Step(p, Done(r, "ok"))
             \/ /\ Step(p, Done(r, "DatabaseError"))
                /\ UNCHANGED cuentas
    /\ UNCHANGED <<creditos, transferencias, ahora, serial, config, tokens, documentos, cuotas, racha, antes, perdido>>

\* -------------------------------------- UserAccountsService.validateCredentials
BeginValidateCredentials(p) ==
    /\ CanBegin(p)
    /\ \E u \in Origenes, password \in Claves :
        Step(p, [Idle EXCEPT !.op = "validateCredentials", !.pc = "vc_isAccountBlocked",
                             !.usuario = u, !.clave = password, !.inicio = ahora])
    /\ UNCHANGED <<cuentas, creditos, transferencias, ahora, serial, config, tokens, documentos, cuotas, racha, antes, perdido>>

\* isAccountBlocked: const account = await this.findByUserId(userId) and the
\* code up to the unblockAccount call or the return; then validateCredentials
\* up to the getPasswordHash call.
VcIsAccountBlocked(p) ==
    /\ proc[p].pc = "vc_isAccountBlocked"
    /\ \E dbOk \in BOOLEAN :
        LET r == proc[p]
            account == findByUserId(r.usuario) IN
        IF ~dbOk THEN Step(p, Done(r, "DatabaseError"))
        ELSE IF account = None THEN Step(p, Done(r, "NotFoundError"))
        ELSE IF ~account[1].bloqueado THEN Step(p, [r EXCEPT !.pc = "vc_getPasswordHash"])
        ELSE IF bloqueoExpirado(account[1].fecha_proximo_intento, ahora)
             THEN Step(p, [r EXCEPT !.pc = "vc_unblockAccount"])
        ELSE Step(p, Done(r, "Account is temporarily locked"))
    /\ UNCHANGED <<cuentas, creditos, transferencias, ahora, serial, config, tokens, documentos, cuotas, racha, antes, perdido>>

\* isAccountBlocked: await this.unblockAccount(userId); return false
VcUnblockAccount(p) ==
    /\ proc[p].pc = "vc_unblockAccount"
    /\ LET r == proc[p] IN
       \/ /\ cuentas' = unblockAccount(r.usuario)
          /\ racha' = [racha EXCEPT ![r.usuario] = 0]
          /\ Step(p, [r EXCEPT !.pc = "vc_getPasswordHash"])
       \/ /\ Step(p, Done(r, "DatabaseError"))
          /\ UNCHANGED <<cuentas, racha>>
    /\ UNCHANGED <<creditos, transferencias, ahora, serial, config, tokens, documentos, cuotas, antes, perdido>>

\* const passwordHash = await this.userAccountsRepository.getPasswordHash(userId);
\* const isValid = this.verifyPassword(password, passwordHash)
VcGetPasswordHash(p) ==
    /\ proc[p].pc = "vc_getPasswordHash"
    /\ \E dbOk \in BOOLEAN :
        LET r == proc[p]
            account == findByUserId(r.usuario) IN
        IF ~dbOk THEN Step(p, Done(r, "DatabaseError"))
        ELSE IF account = None THEN Step(p, Done(r, "NotFoundError"))
        ELSE IF account[1].password_hash = None THEN Step(p, Done(r, "NotFoundError"))
        ELSE IF verifyPassword(r.clave, account[1].password_hash[1])
             THEN Step(p, [r EXCEPT !.pc = "vc_resetFailedLoginAttempts"])
             ELSE Step(p, [r EXCEPT !.pc = "vc_recordFailedLoginAttempt"])
    /\ UNCHANGED <<cuentas, creditos, transferencias, ahora, serial, config, tokens, documentos, cuotas, racha, antes, perdido>>

\* recordFailedLoginAttempt: const account = await this.findByUserId(userId);
\* newAttempts, shouldBlock and the updates
VcRecordRead(p) ==
    /\ proc[p].pc = "vc_recordFailedLoginAttempt"
    /\ \E dbOk \in BOOLEAN :
        LET r == proc[p]
            account == findByUserId(r.usuario) IN
        IF ~dbOk THEN Step(p, Done(r, "DatabaseError"))
        ELSE IF account = None THEN Step(p, Done(r, "NotFoundError"))
        ELSE LET newAttempts == account[1].intentos_fallidos + 1 IN
             Step(p, [r EXCEPT !.pc = "vc_recordUpdate", !.intentos = newAttempts,
                               !.fecha = IF shouldBlock(newAttempts)
                                         THEN Some(ahora + LockTicks) ELSE None])
    /\ UNCHANGED <<cuentas, creditos, transferencias, ahora, serial, config, tokens, documentos, cuotas, racha, antes, perdido>>

\* recordFailedLoginAttempt: return this.update(userId, updates);
\* validateCredentials: throw new UnauthorizedError('Invalid credentials')
VcRecordUpdate(p) ==
    /\ proc[p].pc = "vc_recordUpdate"
    /\ LET r == proc[p]
           updates == IF shouldBlock(r.intentos)
                      THEN [intentos_fallidos |-> r.intentos, bloqueado |-> TRUE,
                            fecha_proximo_intento |-> r.fecha]
                      ELSE [intentos_fallidos |-> r.intentos] IN
       \/ /\ cuentas' = update(r.usuario, updates)
          /\ racha' = [racha EXCEPT ![r.usuario] = IF @ < MaxRacha THEN @ + 1 ELSE @]
          /\ Step(p, Done(r, "UnauthorizedError"))
       \/ /\ Step(p, Done(r, "DatabaseError"))
          /\ UNCHANGED <<cuentas, racha>>
    /\ UNCHANGED <<creditos, transferencias, ahora, serial, config, tokens, documentos, cuotas, antes, perdido>>

\* await this.userAccountsRepository.resetFailedLoginAttempts(userId); return true
VcResetFailedLoginAttempts(p) ==
    /\ proc[p].pc = "vc_resetFailedLoginAttempts"
    /\ LET r == proc[p] IN
       \/ /\ cuentas' = resetFailedLoginAttempts(r.usuario)
          /\ racha' = [racha EXCEPT ![r.usuario] = 0]
          /\ Step(p, Done(r, "ok"))
       \/ /\ Step(p, Done(r, "DatabaseError"))
          /\ UNCHANGED <<cuentas, racha>>
    /\ UNCHANGED <<creditos, transferencias, ahora, serial, config, tokens, documentos, cuotas, antes, perdido>>

\* Half an hour passes.
Tick ==
    /\ ahora < MaxAhora
    /\ ahora' = ahora + 1
    /\ UNCHANGED <<cuentas, creditos, transferencias, proc, serial, config, tokens, documentos, cuotas, antes, perdido, racha>>

\* The response is sent: the process serves the next request.
Return(p) ==
    /\ proc[p].pc = "done"
    /\ proc' = [proc EXCEPT ![p] = Idle]
    /\ antes' = 0
    /\ UNCHANGED <<cuentas, creditos, transferencias, ahora, serial, config, tokens, documentos, cuotas, racha, perdido>>

Next ==
    \/ \E p \in Procs : BeginAddFunds(p)
    \/ \E p \in Procs : AfRead(p)
    \/ \E p \in Procs : AfWrite(p)
    \/ \E p \in Procs : BeginRemoveFunds(p)
    \/ \E p \in Procs : RfRead(p)
    \/ \E p \in Procs : RfWrite(p)
    \/ \E p \in Procs : BeginUpdateAccountBalance(p)
    \/ \E p \in Procs : UbRead(p)
    \/ \E p \in Procs : UbWrite(p)
    \/ \E p \in Procs : BeginHandleTransfer(p)
    \/ \E p \in Procs : HtGetBalance(p)
    \/ \E p \in Procs : TfGetBalance(p)
    \/ \E p \in Procs : BeginExternalTransfer(p)
    \/ \E p \in Procs : EtGetBalance(p)
    \/ CreateQuickCredit
    \/ \E p \in Procs : BeginApprove(p)
    \/ \E p \in Procs : ApFindCredit(p)
    \/ \E p \in Procs : ApGetBalance(p)
    \/ \E p \in Procs : ApUpdateBalance(p)
    \/ \E p \in Procs : ApUpdateCredit(p)
    \/ \E p \in Procs : Return(p)

\* Requests interleave at every store call.
Spec == Init /\ [][Next]_vars

InitSerial ==
    /\ cuentas = [u \in Usuarios |-> NuevaCuenta]
    /\ creditos = [c \in {} |-> 0]
    /\ transferencias = <<>>
    /\ proc = [p \in Procs |-> Idle]
    /\ ahora = 0
    /\ serial = TRUE
    /\ config = [enableExternalScoring |-> FALSE]
    /\ antes = 0
    /\ perdido = [u \in Origenes |-> 0]
    /\ racha = [u \in Origenes |-> 0]
    /\ tokens = [t \in {} |-> 0]
    /\ documentos = {}
    /\ cuotas = [c \in {} |-> 0]

\* Requests are served one at a time.
SpecSerial == InitSerial /\ [][Next]_vars

\* The login requests, served one at a time, and the clock.
NextAuth ==
    \/ \E p \in Procs : UpdatePassword(p)
    \/ \E p \in Procs : BeginValidateCredentials(p)
    \/ \E p \in Procs : VcIsAccountBlocked(p)
    \/ \E p \in Procs : VcUnblockAccount(p)
    \/ \E p \in Procs : VcGetPasswordHash(p)
    \/ \E p \in Procs : VcRecordRead(p)
    \/ \E p \in Procs : VcRecordUpdate(p)
    \/ \E p \in Procs : VcResetFailedLoginAttempts(p)
    \/ \E p \in Procs : Return(p)
    \/ Tick

SpecAuth == InitSerial /\ [][NextAuth]_vars

\* The account of u1 after updatePassword(u1, "aaaaaaaa"), no request in
\* flight.
InitAuthConc ==
    /\ cuentas = [u \in Usuarios |->
                    IF u \in Origenes
                    THEN [NuevaCuenta EXCEPT !.password_hash =
                              Some(hashPassword(Rep("a", 8), "5a17"))]
                    ELSE NuevaCuenta]
    /\ creditos = [c \in {} |-> 0]
    /\ transferencias = <<>>
    /\ proc = [p \in Procs |-> Idle]
    /\ ahora = 0
    /\ serial = FALSE
    /\ config = [enableExternalScoring |-> FALSE]
    /\ antes = 0
    /\ perdido = [u \in Origenes |-> 0]
    /\ racha = [u \in Origenes |-> 0]
    /\ tokens = [t \in {} |-> 0]
    /\ documentos = {}
    /\ cuotas = [c \in {} |-> 0]

NextAuthConc ==
    \/ \E p \in Procs : BeginValidateCredentials(p)
    \/ \E p \in Procs : VcIsAccountBlocked(p)
    \/ \E p \in Procs : VcUnblockAccount(p)
    \/ \E p \in Procs : VcGetPasswordHash(p)
    \/ \E p \in Procs : VcRecordRead(p)
    \/ \E p \in Procs : VcRecordUpdate(p)
    \/ \E p \in Procs : VcResetFailedLoginAttempts(p)
    \/ \E p \in Procs : Return(p)
    \/ Tick

\* The login requests interleaved at every store call.
SpecAuthConc == InitAuthConc /\ [][NextAuthConc]_vars

\* ------------------------------------------ UserAccountsService.isAccountBlocked
\* The status check as its own request.  bloqueo records what the account was
\* when the request began.
BeginIsAccountBlocked(p) ==
    /\ CanBegin(p)
    /\ \E u \in Origenes :
        LET account == cuentas[u]
            bloqueo == IF ~account.bloqueado THEN "libre"
                       ELSE IF /\ account.fecha_proximo_intento # None
                               /\ account.fecha_proximo_intento[1] <= ahora
                            THEN "vencido"
                       ELSE "vigente" IN
        Step(p, [Idle EXCEPT !.op = "isAccountBlocked", !.pc = "ib_findByUserId",
                             !.usuario = u, !.inicio = ahora, !.bloqueo = bloqueo])
    /\ UNCHANGED <<cuentas, creditos, transferencias, ahora, serial, config, tokens, documentos, cuotas, racha, antes, perdido>>

\* isAccountBlocked: const account = await this.findByUserId(userId) and the
\* code up to the unblockAccount call or the return.
IbFindByUserId(p) ==
    /\ proc[p].pc = "ib_findByUserId"
    /\ \E dbOk \in BOOLEAN :
        LET r == proc[p]
            account == findByUserId(r.usuario) IN
        IF ~dbOk THEN Step(p, Fin(r, "DatabaseError"))
        ELSE IF account = None THEN Step(p, Fin(r, "NotFoundError"))
        ELSE IF ~account[1].bloqueado THEN Step(p, Fin(r, "false"))
        ELSE IF bloqueoExpirado(account[1].fecha_proximo_intento, ahora)
             THEN Step(p, [r EXCEPT !.pc = "ib_unblockAccount"])
        ELSE Step(p, Fin(r, "true"))
    /\ UNCHANGED <<cuentas, creditos, transferencias, ahora, serial, config, tokens, documentos, cuotas, racha, antes, perdido>>

\* isAccountBlocked: await this.unblockAccount(userId); return false
IbUnblockAccount(p) ==
    /\ proc[p].pc = "ib_unblockAccount"
    /\ LET r == proc[p] IN
       \/ /\ cuentas' = unblockAccount(r.usuario)
          /\ racha' = [racha EXCEPT ![r.usuario] = 0]
          /\ Step(p, Fin(r, "false"))
       \/ /\ Step(p, Fin(r, "DatabaseError"))
          /\ UNCHANGED <<cuentas, racha>>
    /\ UNCHANGED <<creditos, transferencias, ahora, serial, config, tokens, documentos, cuotas, antes, perdido>>

\* The login requests and the status checks, served one at a time, and the clock.
NextLock ==
    \/ \E p \in Procs : UpdatePassword(p)
    \/ \E p \in Procs : BeginValidateCredentials(p)
    \/ \E p \in Procs : VcIsAccountBlocked(p)
    \/ \E p \in Procs : VcUnblockAccount(p)
    \/ \E p \in Procs : VcGetPasswordHash(p)
    \/ \E p \in Procs : VcRecordRead(p)
    \/ \E p \in Procs : VcRecordUpdate(p)
    \/ \E p \in Procs : VcResetFailedLoginAttempts(p)
    \/ \E p \in Procs : BeginIsAccountBlocked(p)
    \/ \E p \in Procs : IbFindByUserId(p)
    \/ \E p \in Procs : IbUnblockAccount(p)
    \/ \E p \in Procs : Return(p)
    \/ Tick

SpecLock == InitSerial /\ [][NextLock]_vars

\* ============================================================ password reset
\* 24 * 60 * 60 * 1000 ms, in half hours
ResetTicks == 48
\* The clock of the reset requests runs to four times twelve hours.
MaxAhoraReset == 96
\* The successful resets counted per token.
MaxUsos == 2

\* crypto.randomBytes(32).toString('hex'): the tokens the store hands out, and
\* a string that was never handed out.
Tokens == {"t1", "t2"}
TokenDesconocido == "t9"

InvalidToken == "Invalid or expired password reset token"
PasswordTooShort == "Password must be at least 8 characters long"

\* A variant of the expiry test for which no token expires.
tokenVigenteSiempre(fecha_vencimiento, now) == TRUE

\* validatePasswordResetToken: return vencimiento > ahora
tokenVigente(fecha_vencimiento, now) == fecha_vencimiento > now

\* .from('password_reset_tokens').select(..).eq('token', token)
\*   .eq('utilizado', false).single()
tokenSinUsar(token) ==
    IF token \in DOMAIN tokens /\ ~tokens[token].utilizado
    THEN Some(tokens[token]) ELSE None

\* UserAccountsService.createPasswordResetToken: the account exists, the row is
\* inserted with fecha_vencimiento 24 hours ahead and utilizado false.
CreatePasswordResetToken(p) ==
    /\ CanBegin(p)
    /\ \E u \in Origenes, token \in Tokens \ DOMAIN tokens :
        LET r == [Idle EXCEPT !.op = "createPasswordResetToken", !.usuario = u,
                              !.token = token, !.inicio = ahora] IN
        \/ /\ tokens' = tokens @@ (token :> [usuario_id |-> u,
                                             fecha_vencimiento |-> ahora + ResetTicks,
                                             utilizado |-> FALSE, usos |-> 0])
           /\ Step(p, Fin(r, "ok"))
        \/ /\ Step(p, Fin(r, "DatabaseError"))
           /\ UNCHANGED tokens
    /\ UNCHANGED <<cuentas, creditos, transferencias, ahora, serial, config, documentos, cuotas, racha, antes, perdido>>

\* updatePasswordWithResetToken up to the validatePasswordResetToken call.
\* estado records what the token was when the request began.
BeginUpdatePasswordWithResetToken(p) ==
    /\ CanBegin(p)
    /\ \E token \in Tokens \cup {TokenDesconocido}, newPassword \in Claves \cup {ClaveCorta} :
        LET estado == IF token \notin DOMAIN tokens THEN "desconocido"
                      ELSE IF tokens[token].utilizado THEN "utilizado"
                      ELSE IF tokens[token].fecha_vencimiento <= ahora THEN "vencido"
                      ELSE "vigente"
            r == [Idle EXCEPT !.op = "updatePasswordWithResetToken", !.token = token,
                              !.clave = newPassword, !.inicio = ahora, !.estado = estado] IN
        IF Len(newPassword) < 8
        THEN Step(p, Fin(r, PasswordTooShort))
        ELSE Step(p, [r EXCEPT !.pc = "rp_validatePasswordResetToken"])
    /\ UNCHANGED <<cuentas, creditos, transferencias, ahora, serial, config, tokens, documentos, cuotas, racha, antes, perdido>>

\* const isValidToken = await validatePasswordResetToken(token): the select
\* answers a row, no row, or an error (both taken for an invalid token), or
\* the call throws.
RpValidatePasswordResetToken(p) ==
    /\ proc[p].pc = "rp_validatePasswordResetToken"
    /\ \E db \in {"ok", "error", "throw"} :
        LET r == proc[p]
            data == tokenSinUsar(r.token) IN
        IF db = "throw" THEN Step(p, Fin(r, "DatabaseError"))
        ELSE IF db = "error" \/ data = None THEN Step(p, Fin(r, InvalidToken))
        ELSE IF tokenVigente(data[1].fecha_vencimiento, ahora)
             THEN Step(p, [r EXCEPT !.pc = "rp_getUserIdFromResetToken"])
        ELSE Step(p, Fin(r, InvalidToken))
    /\ UNCHANGED <<cuentas, creditos, transferencias, ahora, serial, config, tokens, documentos, cuotas, racha, antes, perdido>>

\* const userId = await getUserIdFromResetToken(token);
\* const passwordHash = this.hashPassword(newPassword)
RpGetUserIdFromResetToken(p) ==
    /\ proc[p].pc = "rp_getUserIdFromResetToken"
    /\ \E dbOk \in BOOLEAN :
        LET r == proc[p]
            data == tokenSinUsar(r.token) IN
        IF ~dbOk \/ data = None THEN Step(p, Fin(r, "NotFoundError"))
        ELSE Step(p, [r EXCEPT !.pc = "rp_markResetTokenAsUsed",
                               !.usuario = data[1].usuario_id])
    /\ UNCHANGED <<cuentas, creditos, transferencias, ahora, serial, config, tokens, documentos, cuotas, racha, antes, perdido>>

\* await markResetTokenAsUsed(token): update({utilizado: true, ..}).eq('token', token)
RpMarkResetTokenAsUsed(p) ==
    /\ proc[p].pc = "rp_markResetTokenAsUsed"
    /\ LET r == proc[p] IN
       \/ /\ tokens' = [t \in DOMAIN tokens |->
                           IF t = r.token THEN [tokens[t] EXCEPT !.utilizado = TRUE]
                           ELSE tokens[t]]
          /\ Step(p, [r EXCEPT !.pc = "rp_updatePassword"])
       \/ /\ Step(p, Fin(r, "DatabaseError"))
          /\ UNCHANGED tokens
    /\ UNCHANGED <<cuentas, creditos, transferencias, ahora, serial, config, documentos, cuotas, racha, antes, perdido>>

\* return this.userAccountsRepository.updatePassword(userId, passwordHash).
\* usos counts, per token, the calls that changed the password.
RpUpdatePassword(p) ==
    /\ proc[p].pc = "rp_updatePassword"
    /\ \E salt \in Salts :
        LET r == proc[p] IN
        \/ /\ cuentas' = updatePassword(r.usuario, hashPassword(r.clave, salt))
           /\ tokens' = [tokens EXCEPT ![r.token].usos =
                            IF @ < MaxUsos THEN @ + 1 ELSE @]
           /\ Step(p, Fin(r, "ok"))
        \/ /\ Step(p, Fin(r, "DatabaseError"))
           /\ UNCHANGED <<cuentas, tokens>>
    /\ UNCHANGED <<creditos, transferencias, ahora, serial, config, documentos, cuotas, racha, antes, perdido>>

\* Twelve hours pass.
TickReset ==
    /\ ahora + ResetTicks \div 2 <= MaxAhoraReset
    /\ ahora' = ahora + ResetTicks \div 2
    /\ UNCHANGED <<cuentas, creditos, transferencias, proc, serial, config, tokens, documentos, cuotas, antes, perdido, racha>>

NextReset ==
    \/ \E p \in Procs : CreatePasswordResetToken(p)
    \/ \E p \in Procs : BeginUpdatePasswordWithResetToken(p)
    \/ \E p \in Procs : RpValidatePasswordResetToken(p)
    \/ \E p \in Procs : RpGetUserIdFromResetToken(p)
    \/ \E p \in Procs : RpMarkResetTokenAsUsed(p)
    \/ \E p \in Procs : RpUpdatePassword(p)
    \/ \E p \in Procs : Return(p)
    \/ TickReset

\* The reset requests served one at a time.
SpecReset == InitSerial /\ [][NextReset]_vars

\* The reset requests within the 24 hours of the tokens.
NextResetConc ==
    \/ \E p \in Procs : CreatePasswordResetToken(p)
    \/ \E p \in Procs : BeginUpdatePasswordWithResetToken(p)
    \/ \E p \in Procs : RpValidatePasswordResetToken(p)
    \/ \E p \in Procs : RpGetUserIdFromResetToken(p)
    \/ \E p \in Procs : RpMarkResetTokenAsUsed(p)
    \/ \E p \in Procs : RpUpdatePassword(p)
    \/ \E p \in Procs : Return(p)

\* The reset requests interleaved at every store call.
SpecResetConc == Init /\ [][NextResetConc]_vars

\* ======================================================================== KYC
\* tipo_documento: 'dni' | 'selfie' | 'comprobante_domicilio'
TiposDocumento == {"dni", "selfie", "comprobante_domicilio"}

\* The reasons a rejection is given: none, blanks only, a word, a word
\* between blanks.
Motivos == {<<>>, <<" ", " ">>, <<"f", "a", "l", "s", "o">>, <<" ", "x", " ">>}

\* A variant of trim that leaves the string as it is.
sinTrim(s) == s

\* String.prototype.trim
RECURSIVE trim(_)
trim(s) ==
    IF s = <<>> THEN s
    ELSE IF Head(s) \in Whitespace THEN trim(Tail(s))
    ELSE IF s[Len(s)] \in Whitespace THEN trim(SubSeq(s, 1, Len(s) - 1))
    ELSE s

\* UserAccountsRepository.getKYCDocuments
getKYCDocuments(userId) == {d \in documentos : d.usuario_id = userId}

\* documentos.some((d) => d.tipo_documento === 'dni')
hasDNI(docs) == \E d \in docs : d.tipo_documento = "dni"

\* A variant of hasSelfie that takes the selfie for present.
hasSelfieSiempre(docs) == TRUE

\* documentos.some((d) => d.tipo_documento === 'selfie')
hasSelfie(docs) == \E d \in docs : d.tipo_documento = "selfie"

\* A variant of updateKYCStatus that leaves the limit to a later call.
updateKYCStatusSinLimite(userId, status) ==
    update(userId,
           IF status = APROBADO THEN [kyc_status |-> status, kyc_completo |-> TRUE]
           ELSE IF status = RECHAZADO THEN [kyc_status |-> status, kyc_completo |-> FALSE]
           ELSE [kyc_status |-> status])

\* UserAccountsRepository.updateKYCStatus: one update of the row.
updateKYCStatus(userId, status) ==
    update(userId,
           IF status = APROBADO
           THEN [kyc_status |-> status, kyc_completo |-> TRUE,
                 limite_transferencia |-> LimiteConKYC]
           ELSE IF status = RECHAZADO
           THEN [kyc_status |-> status, kyc_completo |-> FALSE]
           ELSE [kyc_status |-> status])

\* UserAccountsRepository.updateTransferLimit
updateTransferLimit(userId, limite) ==
    update(userId, [limite_transferencia |-> limite])

\* UserAccountsService.uploadKYCDocument: the account exists, the URL is
\* tested, the document is stored with estado_validacion pendiente.
UploadKYCDocument(p) ==
    /\ CanBegin(p)
    /\ \E u \in Origenes, tipoDocumento \in TiposDocumento, urlDocumento \in {<<>>, <<"h">>} :
        LET r == [Idle EXCEPT !.op = "uploadKYCDocument", !.usuario = u,
                              !.tipo = tipoDocumento] IN
        IF urlDocumento = <<>>
        THEN Step(p, Fin(r, "ValidationError")) /\ UNCHANGED documentos
        ELSE \/ /\ documentos' = documentos \cup
                       {[usuario_id |-> u, tipo_documento |-> tipoDocumento,
                         estado_validacion |-> PENDIENTE]}
                /\ Step(p, Fin(r, "ok"))
             \/ /\ Step(p, Fin(r, "DatabaseError"))
                /\ UNCHANGED documentos
    /\ UNCHANGED <<cuentas, creditos, transferencias, ahora, serial, config, tokens, cuotas, racha, antes, perdido>>

BeginApproveKYC(p) ==
    /\ CanBegin(p)
    /\ \E u \in Origenes :
        Step(p, [Idle EXCEPT !.op = "approveKYC", !.pc = "ak_getKYCDocuments",
                             !.usuario = u])
    /\ UNCHANGED <<cuentas, creditos, transferencias, ahora, serial, config, tokens, documentos, cuotas, racha, antes, perdido>>

\* const documentos = await this.getKYCDocuments(userId); hasDNI, hasSelfie
\* and the test
AkGetKYCDocuments(p) ==
    /\ proc[p].pc = "ak_getKYCDocuments"
    /\ \E dbOk \in BOOLEAN :
        LET r == proc[p]
            docs == getKYCDocuments(r.usuario) IN
        IF ~dbOk THEN Step(p, Fin(r, "DatabaseError"))
        ELSE IF ~hasDNI(docs) \/ ~hasSelfie(docs) THEN Step(p, Fin(r, "ValidationError"))
        ELSE Step(p, [r EXCEPT !.pc = "ak_updateKYCStatus"])
    /\ UNCHANGED <<cuentas, creditos, transferencias, ahora, serial, config, tokens, documentos, cuotas, racha, antes, perdido>>

\* const account = await updateKYCStatus(userId, KYCStatus.APROBADO)
AkUpdateKYCStatus(p) ==
    /\ proc[p].pc = "ak_updateKYCStatus"
    /\ LET r == proc[p] IN
       \/ /\ cuentas' = updateKYCStatus(r.usuario, APROBADO)
          /\ Step(p, [r EXCEPT !.pc = "ak_updateTransferLimit"])
       \/ /\ Step(p, Fin(r, "DatabaseError"))
          /\ UNCHANGED cuentas
    /\ UNCHANGED <<creditos, transferencias, ahora, serial, config, tokens, documentos, cuotas, racha, antes, perdido>>

\* await updateTransferLimit(userId, 50000); return account
AkUpdateTransferLimit(p) ==
    /\ proc[p].pc = "ak_updateTransferLimit"
    /\ LET r == proc[p] IN
       \/ /\ cuentas' = updateTransferLimit(r.usuario, LimiteConKYC)
          /\ Step(p, Fin(r, "ok"))
       \/ /\ Step(p, Fin(r, "DatabaseError"))
          /\ UNCHANGED cuentas
    /\ UNCHANGED <<creditos, transferencias, ahora, serial, config, tokens, documentos, cuotas, racha, antes, perdido>>

\* rejectKYC: if (!motivo || motivo.trim() === '') throw new ValidationError(..)
BeginRejectKYC(p) ==
    /\ CanBegin(p)
    /\ \E u \in Origenes, motivo \in Motivos :
        LET r == [Idle EXCEPT !.op = "rejectKYC", !.usuario = u, !.motivo = motivo] IN
        IF motivo = <<>> \/ trim(motivo) = <<>>
        THEN Step(p, Fin(r, "ValidationError"))
        ELSE Step(p, [r EXCEPT !.pc = "rk_updateKYCStatus"])
    /\ UNCHANGED <<cuentas, creditos, transferencias, ahora, serial, config, tokens, documentos, cuotas, racha, antes, perdido>>

\* return updateKYCStatus(userId, KYCStatus.RECHAZADO, motivo)
RkUpdateKYCStatus(p) ==
    /\ proc[p].pc = "rk_updateKYCStatus"
    /\ LET r == proc[p] IN
       \/ /\ cuentas' = updateKYCStatus(r.usuario, RECHAZADO)
          /\ Step(p, Fin(r, "ok"))
       \/ /\ Step(p, Fin(r, "DatabaseError"))
          /\ UNCHANGED cuentas
    /\ UNCHANGED <<creditos, transferencias, ahora, serial, config, tokens, documentos, cuotas, racha, antes, perdido>>

NextKYC ==
    \/ \E p \in Procs : UploadKYCDocument(p)
    \/ \E p \in Procs : BeginApproveKYC(p)
    \/ \E p \in Procs : AkGetKYCDocuments(p)
    \/ \E p \in Procs : AkUpdateKYCStatus(p)
    \/ \E p \in Procs : AkUpdateTransferLimit(p)
    \/ \E p \in Procs : BeginRejectKYC(p)
    \/ \E p \in Procs : RkUpdateKYCStatus(p)
    \/ \E p \in Procs : Return(p)

\* The KYC requests interleaved at every store call.
SpecKYC == Init /\ [][NextKYC]_vars

\* The KYC requests served one at a time.
SpecKYCSerial == InitSerial /\ [][NextKYC]_vars

\* ==================================================================== credits
\* The amounts of the credit requests below are in pesos; the fractional
\* amounts of calculateCredit are exact multiples of 1/Escala peso, and the
\* model computes with them exactly where the code computes in floating point.
\* enum CreditType
QUICK == "rapido"
NORMAL == "normal"

quickCreditRates == (30 :> 110) @@ (60 :> 115) @@ (90 :> 120)
normalCreditRates == (3 :> 85) @@ (6 :> 90) @@ (12 :> 95)
adminChargePercentage == 2

\* termDays / 365, tea / 100, and a plan of 1, 2, 3, 6 or 12 installments
Escala == 365 * 100 * 12

\* The principals, the terms in days of the quick requests (45 is not
\* offered) and of the normal requests (105 = 3.5 * 30, 150 = 5 * 30 and
\* 270 = 9 * 30 among them).
Principales == {1000, 2000}
PlazosQuick == {30, 45, 60, 90}
PlazosNormal == {90, 105, 150, 180, 270, 360}

InvalidTermQuick == "Invalid term for quick credit. Allowed: 30, 60, 90 days"
InvalidTermNormal == "Invalid term for normal credit. Allowed: 3, 6, 9, 12 months"

\* An amount is a pair <<pesos, partes>>: pesos + partes / Escala, with partes
\* in 0 .. Escala - 1 (so pesos is the floor of the amount).
Norm(a) == <<a[1] + a[2] \div Escala, a[2] % Escala>>
Mas(a, b) == Norm(<<a[1] + b[1], a[2] + b[2]>>)
Menos(a, b) == Norm(<<a[1] - b[1], a[2] - b[2]>>)

\* a * n, for a small n >= 0
Veces(a, n) == Norm(<<a[1] * n, a[2] * n>>)

\* a / n, for an n in 1 .. 12 that divides a
Entre(a, n) == <<a[1] \div n, ((a[1] % n) * Escala + a[2]) \div n>>

\* n * k / Escala for an n in 0 .. 512 * 512 - 1 and a k in 0 .. Escala - 1,
\* computed in two halves of n so that no product leaves the integers of the
\* checker: (n \div 512) * (512 * k / Escala) + (n % 512) * k / Escala
PorNat(n, k) ==
    Mas(Veces(Norm(<<0, 512 * k>>), n \div 512), Norm(<<0, (n % 512) * k>>))

\* n * k / Escala, for a negative n as well
Por(n, k) == IF n < 0 THEN Menos(<<0, 0>>, PorNat(-n, k)) ELSE PorNat(n, k)

\* Math.round(a): the floor of a + 1/2
Round(a) == a[1] + (IF 2 * a[2] >= Escala THEN 1 ELSE 0)

\* Math.ceil(a / b)
Ceil(a, b) == (a + b - 1) \div b

RECURSIVE SumSeq(_)
SumSeq(s) == IF s = <<>> THEN <<0, 0>> ELSE Mas(Head(s), SumSeq(Tail(s)))

\* CreditsService.calculateCredit.  interest, adminCharges, totalAmount,
\* installmentAmount and the importes are amounts; monto_intereses,
\* gastos_administrativos and monto_total are rounded to pesos.
calculateCredit(principal, tea, termDays, type) ==
    LET interest == Por(principal, tea * termDays * 12)
        adminCharges == Por(principal, adminChargePercentage * 365 * 12)
        totalAmount == Mas(Mas(<<principal, 0>>, interest), adminCharges)
        numInstallments == IF type = "quick" THEN Ceil(termDays, 30) ELSE termDays \div 30
        installmentAmount == Entre(totalAmount, numInstallments)
        plan == [i \in 1..numInstallments |->
                    IF i = numInstallments
                    THEN Menos(totalAmount, Veces(installmentAmount, numInstallments - 1))
                    ELSE installmentAmount] IN
    [ monto_faltante |-> principal, tasa_tea |-> tea,
      monto_intereses |-> Round(interest),
      gastos_administrativos |-> Round(adminCharges),
      monto_total |-> Round(totalAmount),
      plan_cuotas |-> plan ]

\* CreditsService.simulateQuickCredit, for a term it offers
simulateQuickCredit(missingAmount, termDays) ==
    LET tea == quickCreditRates[termDays]
        calculation == calculateCredit(missingAmount, tea, termDays, "quick") IN
    [ tipo_credito |-> QUICK, monto_solicitado |-> missingAmount, plazo_dias |-> termDays,
      cuotas_totales |-> Len(calculation.plan_cuotas), tasa_tea |-> tea,
      monto_total |-> calculation.monto_total,
      costo_financiero |-> calculation.monto_intereses + calculation.gastos_administrativos,
      plan_cuotas |-> calculation.plan_cuotas ]

\* CreditsService.simulateNormalCredit, for a term it offers
simulateNormalCredit(amount, termMonths) ==
    LET tea == normalCreditRates[termMonths]
        termDays == termMonths * 30
        calculation == calculateCredit(amount, tea, termDays, "normal") IN
    [ tipo_credito |-> NORMAL, monto_solicitado |-> amount, plazo_dias |-> termDays,
      cuotas_totales |-> termMonths, tasa_tea |-> tea,
      monto_total |-> calculation.monto_total,
      costo_financiero |-> calculation.monto_intereses + calculation.gastos_administrativos,
      plan_cuotas |-> calculation.plan_cuotas ]

\* createQuickCredit up to the createCredit call: the type test and
\* simulateQuickCredit with its term test.
BeginCreateQuickCredit(p) ==
    /\ CanBegin(p)
    /\ \E u \in Origenes, tipo_credito \in {QUICK, NORMAL},
          monto_solicitado \in Principales, plazo_dias \in PlazosQuick :
        LET r == [Idle EXCEPT !.op = "createQuickCredit", !.usuario = u,
                              !.tipo = tipo_credito, !.monto = monto_solicitado,
                              !.plazo = plazo_dias] IN
        IF tipo_credito # QUICK THEN Step(p, Fin(r, "Invalid credit type"))
        ELSE IF plazo_dias \notin DOMAIN quickCreditRates
             THEN Step(p, Fin(r, InvalidTermQuick))
        ELSE Step(p, [r EXCEPT !.pc = "cc_createCredit",
                               !.simulacion = Some(simulateQuickCredit(monto_solicitado,
                                                                       plazo_dias))])
    /\ UNCHANGED <<cuentas, creditos, transferencias, ahora, serial, config, tokens, documentos, cuotas, racha, antes, perdido>>

\* createNormalCredit up to the createCredit call: the type test, termMonths
\* and its test, simulateNormalCredit with its term test.
BeginCreateNormalCredit(p) ==
    /\ CanBegin(p)
    /\ \E u \in Origenes, tipo_credito \in {QUICK, NORMAL},
          monto_solicitado \in Principales, plazo_dias \in PlazosNormal :
        LET r == [Idle EXCEPT !.op = "createNormalCredit", !.usuario = u,
                              !.tipo = tipo_credito, !.monto = monto_solicitado,
                              !.plazo = plazo_dias]
            termMonths == plazo_dias \div 30 IN
        IF tipo_credito # NORMAL THEN Step(p, Fin(r, "Invalid credit type"))
        ELSE IF termMonths \notin {3, 6, 9, 12} THEN Step(p, Fin(r, InvalidTermNormal))
        ELSE IF termMonths \notin DOMAIN normalCreditRates
             THEN Step(p, Fin(r, InvalidTermNormal))
        ELSE Step(p, [r EXCEPT !.pc = "cc_createCredit",
                               !.simulacion = Some(simulateNormalCredit(monto_solicitado,
                                                                        termMonths))])
    /\ UNCHANGED <<cuentas, creditos, transferencias, ahora, serial, config, tokens, documentos, cuotas, racha, antes, perdido>>

\* const credit = await this.creditsRepository.createCredit({..}), of
\* createQuickCredit and of createNormalCredit alike: the row takes plazo_dias
\* from the request and the rest from the simulation.
CcCreateCredit(p) ==
    /\ proc[p].pc = "cc_createCredit"
    /\ LET r == proc[p]
           simulation == r.simulacion[1] IN
       \/ \E id \in CreditIds \ DOMAIN creditos :
           /\ creditos' = creditos @@
                 (id :> [usuario_id |-> r.usuario, tipo_credito |-> r.tipo,
                         monto_solicitado |-> r.monto,
                         monto_total |-> simulation.monto_total,
                         plazo_dias |-> r.plazo, tasa_tea |-> simulation.tasa_tea,
                         estado |-> PREAPPROVED, fecha_desembolso |-> None,
                         cuotas |-> simulation.cuotas_totales, desembolsos |-> 0])
           /\ Step(p, [r EXCEPT !.pc = "cc_createInstallmentPlan", !.credito = id])
       \/ /\ Step(p, Fin(r, "DatabaseError"))
          /\ UNCHANGED creditos
    /\ UNCHANGED <<cuentas, transferencias, ahora, serial, config, tokens, documentos, cuotas, racha, antes, perdido>>

\* await this.creditsRepository.createInstallmentPlan(credit.id_credito,
\* installmentData); return credit
CcCreateInstallmentPlan(p) ==
    /\ proc[p].pc = "cc_createInstallmentPlan"
    /\ LET r == proc[p] IN
       \/ /\ cuotas' = cuotas @@ (r.credito :> r.simulacion[1].plan_cuotas)
          /\ Step(p, Fin(r, "ok"))
       \/ /\ Step(p, Fin(r, "DatabaseError"))
          /\ UNCHANGED cuotas
    /\ UNCHANGED <<cuentas, creditos, transferencias, ahora, serial, config, tokens, documentos, racha, antes, perdido>>

\* ---------------------------------- CreditsValidator.validateQuickCreditEligibility
\* 1000 * 60 * 60 * 24 ms, in half hours
DiaTicks == 48
\* if (accountAge < 30)
EdadMinima == 30
\* if (debtToIncome > 40)
MaxDeudaIngreso == 40
\* The clock of the credit requests advances by fifteen days, to 45 days.
Quincena == 15
MaxDias == 45

\* The principals of the credits already disbursed when the run begins, and
\* the incomes declared.
PrincipalesPrevios == {976, 978}
Ingresos == {None, Some(0), Some(100), Some(1000)}

KYCNotCompleted == "KYC not completed"
AccountTooYoung == "Account must be at least 30 days old"
HasDefaultHistory == "User has default history"
RatioExceeded == "Debt-to-income ratio exceeds 40%"
CheckFailed == "Eligibility check failed"

\* UserAccountsRepository.getAccountAge:
\* Math.floor((Date.now() - fecha_registro) / (1000 * 60 * 60 * 24))
accountAge(account, now) == (now - account.fecha_registro) \div DiaTicks

\* CreditsRepository.getActiveCreditsByUser: the ids of the rows
getActiveCreditsByUser(userId) ==
    {c \in DOMAIN creditos : /\ creditos[c].usuario_id = userId
                             /\ creditos[c].estado \in {IN_PROGRESS, DEFAULT}}

\* credit.monto_total / (credit.cuotas || 1), in twelfths of a peso
monthlyPayment(credit) ==
    (credit.monto_total * 12) \div (IF credit.cuotas = 0 THEN 1 ELSE credit.cuotas)

\* activeCredits.reduce((sum, credit) => sum + monthlyPayment, 0)
RECURSIVE totalMonthlyDebt(_)
totalMonthlyDebt(activeCredits) ==
    IF activeCredits = {} THEN 0
    ELSE LET c == CHOOSE x \in activeCredits : TRUE IN
         monthlyPayment(creditos[c]) + totalMonthlyDebt(activeCredits \ {c})

\* getDebtToIncomeRatio: income = (await getDeclaredIncome(userId)) || 0;
\* 0 when income is 0, else (totalMonthlyDebt / income) * 100: the ratio as
\* <<numerator, denominator>>
debtToIncomeRatio(debt, ingresos_declarados) ==
    LET income == IF ingresos_declarados = None THEN 0 ELSE ingresos_declarados[1] IN
    IF income = 0 THEN <<0, 1>> ELSE <<debt * 100, income * 12>>

\* A variant of the test that denies from 40% on.
ratioExcedeDesde(debtToIncome) ==
    debtToIncome[1] >= MaxDeudaIngreso * debtToIncome[2]

\* if (debtToIncome > 40)
ratioExcede(debtToIncome) ==
    debtToIncome[1] > MaxDeudaIngreso * debtToIncome[2]

\* What the caller does with the answer of validateQuickCreditEligibility:
\* requestQuickCredit throws for a denial, and else calls createQuickCredit,
\* which runs simulateQuickCredit with its term test up to the createCredit call.
VqReturn(r, res) ==
    IF r.op = "requestQuickCredit"
    THEN IF res # "eligible" THEN Fin(r, "Not eligible for quick credit")
         ELSE IF r.plazo \notin DOMAIN quickCreditRates THEN Fin(r, InvalidTermQuick)
         ELSE [r EXCEPT !.pc = "cc_createCredit",
                        !.simulacion = Some(simulateQuickCredit(r.monto, r.plazo))]
    ELSE Fin(r, res)

BeginValidateQuickCreditEligibility(p) ==
    /\ CanBegin(p)
    /\ \E u \in Origenes :
        Step(p, [Idle EXCEPT !.op = "validateQuickCreditEligibility",
                             !.pc = "vq_checkKYCStatus", !.usuario = u, !.inicio = ahora])
    /\ UNCHANGED <<cuentas, creditos, transferencias, ahora, serial, config, tokens, documentos, cuotas, racha, antes, perdido>>

\* const kycCompleted = await checkKYCStatus(userId)
VqCheckKYCStatus(p) ==
    /\ proc[p].pc = "vq_checkKYCStatus"
    /\ \E dbOk \in BOOLEAN :
        LET r == proc[p]
            account == findByUserId(r.usuario) IN
        IF ~dbOk \/ account = None THEN Step(p, VqReturn(r, CheckFailed))
        ELSE IF ~account[1].kyc_completo THEN Step(p, VqReturn(r, KYCNotCompleted))
        ELSE Step(p, [r EXCEPT !.pc = "vq_getAccountAge"])
    /\ UNCHANGED <<cuentas, creditos, transferencias, ahora, serial, config, tokens, documentos, cuotas, racha, antes, perdido>>

\* const accountAge = await getAccountAge(userId)
VqGetAccountAge(p) ==
    /\ proc[p].pc = "vq_getAccountAge"
    /\ \E dbOk \in BOOLEAN :
        LET r == proc[p]
            account == findByUserId(r.usuario) IN
        IF ~dbOk \/ account = None THEN Step(p, VqReturn(r, CheckFailed))
        ELSE IF accountAge(account[1], ahora) < EdadMinima THEN Step(p, VqReturn(r, AccountTooYoung))
        ELSE Step(p, [r EXCEPT !.pc = "vq_hasDefaultHistory"])
    /\ UNCHANGED <<cuentas, creditos, transferencias, ahora, serial, config, tokens, documentos, cuotas, racha, antes, perdido>>

\* const hasDefaultHistory = await hasDefaultHistory(userId)
VqHasDefaultHistory(p) ==
    /\ proc[p].pc = "vq_hasDefaultHistory"
    /\ \E dbOk \in BOOLEAN :
        LET r == proc[p]
            account == findByUserId(r.usuario) IN
        IF ~dbOk \/ account = None THEN Step(p, VqReturn(r, CheckFailed))
        ELSE IF account[1].historial_mora THEN Step(p, VqReturn(r, HasDefaultHistory))
        ELSE Step(p, [r EXCEPT !.pc = "vq_getActiveCreditsByUser"])
    /\ UNCHANGED <<cuentas, creditos, transferencias, ahora, serial, config, tokens, documentos, cuotas, racha, antes, perdido>>

\* getDebtToIncomeRatio: const activeCredits = await getActiveCreditsByUser(userId);
\* totalMonthlyDebt
VqGetActiveCreditsByUser(p) ==
    /\ proc[p].pc = "vq_getActiveCreditsByUser"
    /\ \E dbOk \in BOOLEAN :
        LET r == proc[p] IN
        IF ~dbOk THEN Step(p, VqReturn(r, CheckFailed))
        ELSE Step(p, [r EXCEPT !.pc = "vq_getDeclaredIncome",
                               !.leido = totalMonthlyDebt(getActiveCreditsByUser(r.usuario))])
    /\ UNCHANGED <<cuentas, creditos, transferencias, ahora, serial, config, tokens, documentos, cuotas, racha, antes, perdido>>

\* getDebtToIncomeRatio: const income = await getDeclaredIncome(userId) || 0 and
\* the ratio; validateQuickCreditEligibility: the test of the ratio and the answer
VqGetDeclaredIncome(p) ==
    /\ proc[p].pc = "vq_getDeclaredIncome"
    /\ \E dbOk \in BOOLEAN :
        LET r == proc[p]
            account == findByUserId(r.usuario) IN
        IF ~dbOk \/ account = None THEN Step(p, VqReturn(r, CheckFailed))
        ELSE IF ratioExcede(debtToIncomeRatio(r.leido, account[1].ingresos_declarados))
             THEN Step(p, VqReturn(r, RatioExceeded))
        ELSE Step(p, VqReturn(r, "eligible"))
    /\ UNCHANGED <<cuentas, creditos, transferencias, ahora, serial, config, tokens, documentos, cuotas, racha, antes, perdido>>

\* Fifteen days pass.
PasanDias ==
    /\ ahora + Quincena * DiaTicks <= MaxDias * DiaTicks
    /\ ahora' = ahora + Quincena * DiaTicks
    /\ UNCHANGED <<cuentas, creditos, transferencias, proc, serial, config, tokens, documentos, cuotas, antes, perdido, racha>>

\* The accounts and the credits the credit requests may find: u1 with or
\* without KYC, default history and declared income, and with no credit or
\* one normal credit of three installments in progress.
InitCredit ==
    /\ \E kyc \in BOOLEAN, mora \in BOOLEAN, ingresos \in Ingresos :
        cuentas = [u \in Usuarios |->
                     IF u \in Origenes
                     THEN [NuevaCuenta EXCEPT !.kyc_completo = kyc,
                                              !.kyc_status = IF kyc THEN APROBADO ELSE PENDIENTE,
                                              !.limite_transferencia =
                                                  IF kyc THEN LimiteConKYC ELSE LimiteSinKYC,
                                              !.historial_mora = mora,
                                              !.ingresos_declarados = ingresos]
                     ELSE NuevaCuenta]
    /\ \/ creditos = [c \in {} |-> 0]
       \/ \E u \in Origenes, principal \in PrincipalesPrevios :
            LET simulation == simulateNormalCredit(principal, 3) IN
            creditos = ("c0" :> [usuario_id |-> u, tipo_credito |-> NORMAL,
                                 monto_solicitado |-> principal,
                                 monto_total |-> simulation.monto_total,
                                 plazo_dias |-> simulation.plazo_dias,
                                 tasa_tea |-> simulation.tasa_tea,
                                 estado |-> IN_PROGRESS, fecha_desembolso |-> Some(0),
                                 cuotas |-> simulation.cuotas_totales, desembolsos |-> 1])
    /\ transferencias = <<>>
    /\ proc = [p \in Procs |-> Idle]
    /\ ahora = 0
    /\ serial = TRUE
    /\ config = [enableExternalScoring |-> FALSE]
    /\ antes = 0
    /\ perdido = [u \in Origenes |-> 0]
    /\ racha = [u \in Origenes |-> 0]
    /\ tokens = [t \in {} |-> 0]
    /\ documentos = {}
    /\ cuotas = [c \in {} |-> 0]

NextCredit ==
    \/ \E p \in Procs : BeginCreateQuickCredit(p)
    \/ \E p \in Procs : BeginCreateNormalCredit(p)
    \/ \E p \in Procs : CcCreateCredit(p)
    \/ \E p \in Procs : CcCreateInstallmentPlan(p)
    \/ \E p \in Procs : BeginValidateQuickCreditEligibility(p)
    \/ \E p \in Procs : VqCheckKYCStatus(p)
    \/ \E p \in Procs : VqGetAccountAge(p)
    \/ \E p \in Procs : VqHasDefaultHistory(p)
    \/ \E p \in Procs : VqGetActiveCreditsByUser(p)
    \/ \E p \in Procs : VqGetDeclaredIncome(p)
    \/ \E p \in Procs : Return(p)
    \/ PasanDias

\* The credit requests served one at a time.
SpecCredit == InitCredit /\ [][NextCredit]_vars

\* --------------------------------- CreditsValidator.validateNormalCreditEligibility
PAID == "pagado"
CANCELED == "cancelado"

\* if (config.features.enableExternalScoring && (!externalScore || externalScore < 50))
PuntajeMinimo == 50

IncomeInvalid == "Income not declared or invalid"
HasUnpaidCredits == "User has unpaid credits"
ScoreBelowThreshold == "External score below threshold"

\* The users of the eligibility requests (u9 has no account), the external
\* scores on file and the states of the credit on file when the run begins.
Solicitantes == Origenes \cup {"u9"}
Puntajes == {None, Some(0), Some(49), Some(50)}
EstadosPrevios == {PREAPPROVED, IN_PROGRESS, PAID, DEFAULT}

\* A variant of the score test that denies a score of 50 as well.
scoreInsuficienteHasta(externalScore) ==
    externalScore = None \/ externalScore[1] = 0 \/ externalScore[1] <= PuntajeMinimo

\* !externalScore || externalScore < 50
scoreInsuficiente(externalScore) ==
    externalScore = None \/ externalScore[1] = 0 \/ externalScore[1] < PuntajeMinimo

\* What the caller does with the answer of validateNormalCreditEligibility:
\* requestNormalCredit throws for a denial, and else calls createNormalCredit,
\* which tests termMonths and runs simulateNormalCredit with its term test up
\* to the createCredit call.
VnReturn(r, res) ==
    IF r.op = "requestNormalCredit"
    THEN LET termMonths == r.plazo \div 30 IN
         IF res # "eligible" THEN Fin(r, "Not eligible for normal credit")
         ELSE IF termMonths \notin {3, 6, 9, 12} THEN Fin(r, InvalidTermNormal)
         ELSE IF termMonths \notin DOMAIN normalCreditRates THEN Fin(r, InvalidTermNormal)
         ELSE [r EXCEPT !.pc = "cc_createCredit",
                        !.simulacion = Some(simulateNormalCredit(r.monto, termMonths))]
    ELSE Fin(r, res)

BeginValidateNormalCreditEligibility(p) ==
    /\ CanBegin(p)
    /\ \E u \in Solicitantes :
        Step(p, [Idle EXCEPT !.op = "validateNormalCreditEligibility",
                             !.pc = "vn_checkKYCStatus", !.usuario = u, !.inicio = ahora])
    /\ UNCHANGED <<cuentas, creditos, transferencias, ahora, serial, config, tokens, documentos, cuotas, racha, antes, perdido>>

\* const kycCompleted = await checkKYCStatus(userId)
VnCheckKYCStatus(p) ==
    /\ proc[p].pc = "vn_checkKYCStatus"
    /\ \E dbOk \in BOOLEAN :
        LET r == proc[p]
            account == findByUserId(r.usuario) IN
        IF ~dbOk \/ account = None THEN Step(p, VnReturn(r, CheckFailed))
        ELSE IF ~account[1].kyc_completo THEN Step(p, VnReturn(r, KYCNotCompleted))
        ELSE Step(p, [r EXCEPT !.pc = "vn_getDeclaredIncome"])
    /\ UNCHANGED <<cuentas, creditos, transferencias, ahora, serial, config, tokens, documentos, cuotas, racha, antes, perdido>>

\* const income = await getDeclaredIncome(userId); if (!income || income <= 0)
VnGetDeclaredIncome(p) ==
    /\ proc[p].pc = "vn_getDeclaredIncome"
    /\ \E dbOk \in BOOLEAN :
        LET r == proc[p]
            account == findByUserId(r.usuario) IN
        IF ~dbOk \/ account = None THEN Step(p, VnReturn(r, CheckFailed))
        ELSE LET income == account[1].ingresos_declarados IN
             IF income = None \/ income[1] = 0 \/ income[1] <= 0
             THEN Step(p, VnReturn(r, IncomeInvalid))
             ELSE Step(p, [r EXCEPT !.pc = "vn_hasDefaultHistory"])
    /\ UNCHANGED <<cuentas, creditos, transferencias, ahora, serial, config, tokens, documentos, cuotas, racha, antes, perdido>>

\* const hasDefaultHistory = await hasDefaultHistory(userId)
VnHasDefaultHistory(p) ==
    /\ proc[p].pc = "vn_hasDefaultHistory"
    /\ \E dbOk \in BOOLEAN :
        LET r == proc[p]
            account == findByUserId(r.usuario) IN
        IF ~dbOk \/ account = None THEN Step(p, VnReturn(r, CheckFailed))
        ELSE IF account[1].historial_mora THEN Step(p, VnReturn(r, HasDefaultHistory))
        ELSE Step(p, [r EXCEPT !.pc = "vn_getActiveCreditsByUser"])
    /\ UNCHANGED <<cuentas, creditos, transferencias, ahora, serial, config, tokens, documentos, cuotas, racha, antes, perdido>>

\* const activeCredits = await getActiveCreditsByUser(userId); hasUnpaidCredits
VnGetActiveCreditsByUser(p) ==
    /\ proc[p].pc = "vn_getActiveCreditsByUser"
    /\ \E dbOk \in BOOLEAN :
        LET r == proc[p]
            activeCredits == getActiveCreditsByUser(r.usuario)
            hasUnpaidCredits == \E c \in activeCredits :
                                   creditos[c].estado = DEFAULT \/ creditos[c].estado = IN_PROGRESS IN
        IF ~dbOk THEN Step(p, VnReturn(r, CheckFailed))
        ELSE IF hasUnpaidCredits THEN Step(p, VnReturn(r, HasUnpaidCredits))
        ELSE Step(p, [r EXCEPT !.pc = "vn_getExternalScore"])
    /\ UNCHANGED <<cuentas, creditos, transferencias, ahora, serial, config, tokens, documentos, cuotas, racha, antes, perdido>>

\* const externalScore = await getExternalScore(userId), read whether or not
\* the scoring is enabled; the test of the score and the answer
VnGetExternalScore(p) ==
    /\ proc[p].pc = "vn_getExternalScore"
    /\ \E dbOk \in BOOLEAN :
        LET r == proc[p]
            account == findByUserId(r.usuario) IN
        IF ~dbOk \/ account = None THEN Step(p, VnReturn(r, CheckFailed))
        ELSE IF config.enableExternalScoring /\ scoreInsuficiente(account[1].score_externo)
             THEN Step(p, VnReturn(r, ScoreBelowThreshold))
        ELSE Step(p, VnReturn(r, "eligible"))
    /\ UNCHANGED <<cuentas, creditos, transferencias, ahora, serial, config, tokens, documentos, cuotas, racha, antes, perdido>>

\* The accounts and the credits the normal eligibility requests may find, with
\* the external scoring enabled or not.
InitNormal ==
    /\ \E kyc \in BOOLEAN, mora \in BOOLEAN, ingresos \in Ingresos, score \in Puntajes :
        cuentas = [u \in Usuarios |->
                     IF u \in Origenes
                     THEN [NuevaCuenta EXCEPT !.kyc_completo = kyc,
                                              !.kyc_status = IF kyc THEN APROBADO ELSE PENDIENTE,
                                              !.limite_transferencia =
                                                  IF kyc THEN LimiteConKYC ELSE LimiteSinKYC,
                                              !.historial_mora = mora,
                                              !.ingresos_declarados = ingresos,
                                              !.score_externo = score]
                     ELSE NuevaCuenta]
    /\ \/ creditos = [c \in {} |-> 0]
       \/ \E u \in Origenes, estado \in EstadosPrevios :
            LET simulation == simulateNormalCredit(1000, 3) IN
            creditos = ("c0" :> [usuario_id |-> u, tipo_credito |-> NORMAL,
                                 monto_solicitado |-> 1000,
                                 monto_total |-> simulation.monto_total,
                                 plazo_dias |-> simulation.plazo_dias,
                                 tasa_tea |-> simulation.tasa_tea,
                                 estado |-> estado,
                                 fecha_desembolso |-> IF estado = PREAPPROVED THEN None ELSE Some(0),
                                 cuotas |-> simulation.cuotas_totales,
                                 desembolsos |-> IF estado = PREAPPROVED THEN 0 ELSE 1])
    /\ \E b \in BOOLEAN : config = [enableExternalScoring |-> b]
    /\ transferencias = <<>>
    /\ proc = [p \in Procs |-> Idle]
    /\ ahora = 0
    /\ serial = TRUE
    /\ antes = 0
    /\ perdido = [u \in Origenes |-> 0]
    /\ racha = [u \in Origenes |-> 0]
    /\ tokens = [t \in {} |-> 0]
    /\ documentos = {}
    /\ cuotas = [c \in {} |-> 0]

NextNormal ==
    \/ \E p \in Procs : BeginValidateNormalCreditEligibility(p)
    \/ \E p \in Procs : VnCheckKYCStatus(p)
    \/ \E p \in Procs : VnGetDeclaredIncome(p)
    \/ \E p \in Procs : VnHasDefaultHistory(p)
    \/ \E p \in Procs : VnGetActiveCreditsByUser(p)
    \/ \E p \in Procs : VnGetExternalScore(p)
    \/ \E p \in Procs : Return(p)

\* The normal eligibility requests served one at a time.
SpecNormal == InitNormal /\ [][NextNormal]_vars

\* ------------------- CreditsHandler.requestQuickCredit / requestNormalCredit
\* config.credits.quickCreditMaxAmount and normalCreditMaxAmount, as config.ts
\* sets them when the environment does not
quickCreditMaxAmount == 50000
normalCreditMaxAmount == 250000

\* The amounts, the terms in days and the terms in months of the requests
MontosPedidos == {-1000, 0, 1000, 50000, 50001, 250000, 250001}
PlazosPedidos == {30, 45}
MesesPedidos == {3, 5}

\* requestQuickCredit up to the eligibility check: the test of the fields
BeginRequestQuickCredit(p) ==
    /\ CanBegin(p)
    /\ \E u \in Origenes, monto \in MontosPedidos, plazo_dias \in PlazosPedidos :
        LET r == [Idle EXCEPT !.op = "requestQuickCredit", !.usuario = u, !.tipo = QUICK,
                              !.monto = monto, !.plazo = plazo_dias, !.inicio = ahora] IN
        IF monto = 0        \* !monto
        THEN Step(p, Fin(r, "ValidationError"))
        ELSE Step(p, [r EXCEPT !.pc = "vq_checkKYCStatus"])
    /\ UNCHANGED <<cuentas, creditos, transferencias, ahora, serial, config, tokens, documentos, cuotas, racha, antes, perdido>>

\* requestNormalCredit up to the eligibility check: the test of the fields;
\* the request it will pass on has plazo_dias: plazo_meses * 30
BeginRequestNormalCredit(p) ==
    /\ CanBegin(p)
    /\ \E u \in Origenes, monto \in MontosPedidos, plazo_meses \in MesesPedidos :
        LET r == [Idle EXCEPT !.op = "requestNormalCredit", !.usuario = u, !.tipo = NORMAL,
                              !.monto = monto, !.plazo = plazo_meses * 30,
                              !.inicio = ahora] IN
        IF monto = 0        \* !monto
        THEN Step(p, Fin(r, "ValidationError"))
        ELSE Step(p, [r EXCEPT !.pc = "vn_checkKYCStatus"])
    /\ UNCHANGED <<cuentas, creditos, transferencias, ahora, serial, config, tokens, documentos, cuotas, racha, antes, perdido>>

\* The accounts the credit requests may find: u1, registered thirty days ago,
\* with or without KYC and declared income, and no credit yet.
InitRequest ==
    /\ \E kyc \in BOOLEAN, ingresos \in {None, Some(1000)} :
        cuentas = [u \in Usuarios |->
                     IF u \in Origenes
                     THEN [NuevaCuenta EXCEPT !.kyc_completo = kyc,
                                              !.kyc_status = IF kyc THEN APROBADO ELSE PENDIENTE,
                                              !.limite_transferencia =
                                                  IF kyc THEN LimiteConKYC ELSE LimiteSinKYC,
                                              !.ingresos_declarados = ingresos]
                     ELSE NuevaCuenta]
    /\ creditos = [c \in {} |-> 0]
    /\ config = [enableExternalScoring |-> FALSE]
    /\ transferencias = <<>>
    /\ proc = [p \in Procs |-> Idle]
    /\ ahora = EdadMinima * DiaTicks
    /\ serial = TRUE
    /\ antes = 0
    /\ perdido = [u \in Origenes |-> 0]
    /\ racha = [u \in Origenes |-> 0]
    /\ tokens = [t \in {} |-> 0]
    /\ documentos = {}
    /\ cuotas = [c \in {} |-> 0]

NextRequest ==
    \/ \E p \in Procs : BeginRequestQuickCredit(p)
    \/ \E p \in Procs : BeginRequestNormalCredit(p)
    \/ \E p \in Procs : VqCheckKYCStatus(p)
    \/ \E p \in Procs : VqGetAccountAge(p)
    \/ \E p \in Procs : VqHasDefaultHistory(p)
    \/ \E p \in Procs : VqGetActiveCreditsByUser(p)
    \/ \E p \in Procs : VqGetDeclaredIncome(p)
    \/ \E p \in Procs : VnCheckKYCStatus(p)
    \/ \E p \in Procs : VnGetDeclaredIncome(p)
    \/ \E p \in Procs : VnHasDefaultHistory(p)
    \/ \E p \in Procs : VnGetActiveCreditsByUser(p)
    \/ \E p \in Procs : VnGetExternalScore(p)
    \/ \E p \in Procs : CcCreateCredit(p)
    \/ \E p \in Procs : CcCreateInstallmentPlan(p)
    \/ \E p \in Procs : Return(p)

\* The credit requests of the handlers served one at a time.
SpecRequest == InitRequest /\ [][NextRequest]_vars

\* --------------------------------------------- the status of a credit on file
\* The states of the claim's chain a row of creditos may be in when the run
\* begins (the rows are in the units of the ledger).
EstadosCredito == {PREAPPROVED, IN_PROGRESS, PAID, DEFAULT, CANCELED}

\* One credit of u1 on file in any of the states, the balance of u1 anything.
InitStatus ==
    /\ \E saldo \in 0..MaxBalance :
        cuentas = [u \in Usuarios |->
                     IF u \in Origenes
                     THEN [NuevaCuenta EXCEPT !.saldo_disponible = saldo]
                     ELSE NuevaCuenta]
    /\ \E c \in CreditIds, u \in Origenes, m \in 1..MaxCredito, estado \in EstadosCredito :
        creditos = (c :> [usuario_id |-> u, monto_solicitado |-> m, estado |-> estado,
                          fecha_desembolso |-> IF estado = PREAPPROVED THEN None ELSE Some(0),
                          desembolsos |-> IF estado = PREAPPROVED THEN 0 ELSE 1])
    /\ config = [enableExternalScoring |-> FALSE]
    /\ transferencias = <<>>
    /\ proc = [p \in Procs |-> Idle]
    /\ ahora = 0
    /\ serial = TRUE
    /\ antes = 0
    /\ perdido = [u \in Origenes |-> 0]
    /\ racha = [u \in Origenes |-> 0]
    /\ tokens = [t \in {} |-> 0]
    /\ documentos = {}
    /\ cuotas = [c \in {} |-> 0]

NextStatus ==
    \/ \E p \in Procs : BeginApprove(p)
    \/ \E p \in Procs : ApFindCredit(p)
    \/ \E p \in Procs : ApGetBalance(p)
    \/ \E p \in Procs : ApUpdateBalance(p)
    \/ \E p \in Procs : ApUpdateCredit(p)
    \/ \E p \in Procs : Return(p)
    \/ Tick

\* The disbursements of a credit on file, served one at a time.
SpecStatus == InitStatus /\ [][NextStatus]_vars

\* ------------------------------------------- TransferHandler.performFraudCheck
\* if (accountAge < 30 && monto_transferencia > 5000)
MontoAlto == 5000
\* if (dailyTransfers > 10)
MaxTransferenciasDia == 10

\* The amounts of the fraud checks, in pesos
MontosFraude == {-1, 0, 5000, 5001, 6000}

\* A variant of getDailyTransferCount that counts the transfers of every estado.
getDailyTransferCountTodas(usuarioId) ==
    Len(getTransfersByUserIdAndDate(usuarioId))

\* TransfersService.getDailyTransferCount
getDailyTransferCount(usuarioId) ==
    Len(SelectSeq(getTransfersByUserIdAndDate(usuarioId),
                  LAMBDA t : t.estado = ACREDITADA))

cuenta_nueva_monto_alto == [tipo |-> "cuenta_nueva_monto_alto", severity |-> "media"]
transferencias_frecuentes == [tipo |-> "transferencias_frecuentes", severity |-> "alta"]
historial_mora == [tipo |-> "historial_mora", severity |-> "alta"]

\* performFraudCheck up to the read of the account: the tests of the fields
BeginPerformFraudCheck(p) ==
    /\ CanBegin(p)
    /\ \E u \in Solicitantes, monto_transferencia \in MontosFraude :
        LET r == [Idle EXCEPT !.op = "performFraudCheck", !.usuario = u,
                              !.monto = monto_transferencia] IN
        IF monto_transferencia = 0 \/ monto_transferencia <= 0
        THEN Step(p, Fin(r, "ValidationError"))
        ELSE Step(p, [r EXCEPT !.pc = "fc_getUserAccount"])
    /\ UNCHANGED <<cuentas, creditos, transferencias, ahora, serial, config, tokens, documentos, cuotas, racha, antes, perdido>>

\* const account = await getUserAccount(usuario_id); accountAge; check 1
FcGetUserAccount(p) ==
    /\ proc[p].pc = "fc_getUserAccount"
    /\ \E dbOk \in BOOLEAN :
        LET r == proc[p]
            account == findByUserId(r.usuario) IN
        IF ~dbOk THEN Step(p, Fin(r, "DatabaseError"))
        ELSE IF account = None THEN Step(p, Fin(r, "NotFoundError"))
        ELSE Step(p, [r EXCEPT !.pc = "fc_getDailyTransferCount",
                               !.account = account,
                               !.inicio = ahora,
                               !.fraudRisks =
                                   IF accountAge(account[1], ahora) < 30 /\ r.monto > MontoAlto
                                   THEN {cuenta_nueva_monto_alto} ELSE {}])
    /\ UNCHANGED <<cuentas, creditos, transferencias, ahora, serial, config, tokens, documentos, cuotas, racha, antes, perdido>>

\* const dailyTransfers = await getDailyTransferCount(usuario_id); check 2,
\* check 3 on the account read before, and the answer
FcGetDailyTransferCount(p) ==
    /\ proc[p].pc = "fc_getDailyTransferCount"
    /\ \E dbOk \in BOOLEAN :
        LET r == proc[p]
            dailyTransfers == getDailyTransferCount(r.usuario) IN
        IF ~dbOk THEN Step(p, Fin(r, "DatabaseError"))
        ELSE Step(p, Fin([r EXCEPT !.fraudRisks =
                              r.fraudRisks
                              \cup (IF dailyTransfers > MaxTransferenciasDia
                                    THEN {transferencias_frecuentes} ELSE {})
                              \cup (IF r.account[1].historial_mora
                                    THEN {historial_mora} ELSE {})], "ok"))
    /\ UNCHANGED <<cuentas, creditos, transferencias, ahora, serial, config, tokens, documentos, cuotas, racha, antes, perdido>>

\* requiere_verificacion_adicional of the answer
requiere_verificacion(fraudRisks) == \E f \in fraudRisks : f.severity = "alta"

\* n rows of transferencias of today, from u, in the given estado
Filas(u, estado, n) ==
    [i \in 1..n |-> [usuario_id_origen |-> u, monto |-> 1, estado |-> estado]]

\* The account of u1, 29 or 30 days old, with or without default history, and
\* its transfers of today on file: none, ten or eleven settled ones, and
\* possibly a failed one.
InitFraud ==
    /\ \E mora \in BOOLEAN :
        cuentas = [u \in Usuarios |->
                     IF u \in Origenes
                     THEN [NuevaCuenta EXCEPT !.historial_mora = mora]
                     ELSE NuevaCuenta]
    /\ \E u \in Origenes, n \in {0, MaxTransferenciasDia, MaxTransferenciasDia + 1},
          k \in {0, 1} :
        transferencias = Filas(u, ACREDITADA, n) \o Filas(u, "fallida", k)
    /\ \E dias \in {EdadMinima - 1, EdadMinima} : ahora = dias * DiaTicks
    /\ creditos = [c \in {} |-> 0]
    /\ config = [enableExternalScoring |-> FALSE]
    /\ proc = [p \in Procs |-> Idle]
    /\ serial = TRUE
    /\ antes = 0
    /\ perdido = [u \in Origenes |-> 0]
    /\ racha = [u \in Origenes |-> 0]
    /\ tokens = [t \in {} |-> 0]
    /\ documentos = {}
    /\ cuotas = [c \in {} |-> 0]

NextFraud ==
    \/ \E p \in Procs : BeginPerformFraudCheck(p)
    \/ \E p \in Procs : FcGetUserAccount(p)
    \/ \E p \in Procs : FcGetDailyTransferCount(p)
    \/ \E p \in Procs : Return(p)

\* The fraud checks served one at a time.
SpecFraud == InitFraud /\ [][NextFraud]_vars

\* ------------------------------------- TransferHandler.confirmTransferWithCredit
\* confirmTransferWithCredit up to the approveCreditAndDisburse call: the test
\* of the fields.  oferta records that the request confirms an offer of
\* handleTransfer: the balance is short of monto_destino and the credit is
\* the user's, preaprobado, for the shortfall.
BeginConfirmTransferWithCredit(p) ==
    /\ CanBegin(p)
    /\ \E u \in Origenes, c \in CreditIds, d \in Destinos, m \in Montos :
        /\ c \in DOMAIN creditos => creditos[c].desembolsos < MaxDesembolsos
        /\ antes' = Snapshot(u)
        /\ LET r == [Idle EXCEPT !.op = "confirmTransferWithCredit", !.usuario = u,
                                 !.credito = c, !.destino = d, !.monto_destino = m,
                                 !.oferta =
                                     /\ c \in DOMAIN creditos
                                     /\ creditos[c].usuario_id = u
                                     /\ creditos[c].estado = PREAPPROVED
                                     /\ cuentas[u].saldo_disponible < m
                                     /\ creditos[c].monto_solicitado
                                            = m - cuentas[u].saldo_disponible] IN
           IF m = 0        \* !monto_destino
           THEN Step(p, Done(r, "ValidationError"))
           ELSE Step(p, [r EXCEPT !.pc = "ap_findCredit"])
    /\ UNCHANGED <<cuentas, creditos, transferencias, ahora, serial, config, tokens, documentos, cuotas, racha, perdido>>

\* The transfers, the deposits, the quick credits and the confirmations.
NextFlow ==
    \/ \E p \in Procs : BeginAddFunds(p)
    \/ \E p \in Procs : AfRead(p)
    \/ \E p \in Procs : AfWrite(p)
    \/ \E p \in Procs : BeginHandleTransfer(p)
    \/ \E p \in Procs : HtGetBalance(p)
    \/ \E p \in Procs : TfGetBalance(p)
    \/ \E p \in Procs : RfRead(p)
    \/ \E p \in Procs : RfWrite(p)
    \/ CreateQuickCredit
    \/ \E p \in Procs : BeginConfirmTransferWithCredit(p)
    \/ \E p \in Procs : ApFindCredit(p)
    \/ \E p \in Procs : ApGetBalance(p)
    \/ \E p \in Procs : ApUpdateBalance(p)
    \/ \E p \in Procs : ApUpdateCredit(p)
    \/ \E p \in Procs : Return(p)

\* The requests of the quick-credit transfer flow served one at a time.
SpecFlow == InitSerial /\ [][NextFlow]_vars

\* CreditsValidator.validateTerm: the terms a credit of the type may have, in
\* days for a quick credit and in months for a normal one.
validateTerm(termValue, creditType) ==
    IF creditType = QUICK
    THEN IF termValue \notin {30, 60, 90}
         THEN [es_elegible |-> FALSE,
               razon_rechazo |-> "Quick credit terms must be 30, 60, or 90 days"]
         ELSE [es_elegible |-> TRUE]
    ELSE IF termValue \notin {3, 6, 9, 12}
         THEN [es_elegible |-> FALSE,
               razon_rechazo |-> "Normal credit terms must be 3, 6, 9, or 12 months"]
         ELSE [es_elegible |-> TRUE]


\* ------------------------------- UserAccountsService.blockAccount, unblockAccount
\* UserAccountsRepository.blockAccount: update(userId, {bloqueado: true})
blockAccount(userId) ==
    update(userId, [bloqueado |-> TRUE])

\* UserAccountsService.blockAccount: the admin blocks the account.
BlockAccount(p) ==
    /\ CanBegin(p)
    /\ \E u \in Origenes :
        LET r == [Idle EXCEPT !.op = "blockAccount", !.usuario = u, !.inicio = ahora] IN
        \/ /\ cuentas' = [blockAccount(u) EXCEPT ![u].bloqueo_manual = TRUE]
           /\ Step(p, Fin(r, "ok"))
        \/ /\ Step(p, Fin(r, "DatabaseError"))
           /\ UNCHANGED cuentas
    /\ UNCHANGED <<creditos, transferencias, ahora, serial, config, tokens, documentos, cuotas, racha, antes, perdido>>

\* UserAccountsService.unblockAccount: the admin unblocks the account.
UnblockAccount(p) ==
    /\ CanBegin(p)
    /\ \E u \in Origenes :
        LET r == [Idle EXCEPT !.op = "unblockAccount", !.usuario = u, !.inicio = ahora] IN
        \/ /\ cuentas' = [unblockAccount(u) EXCEPT ![u].bloqueo_manual = FALSE]
           /\ racha' = [racha EXCEPT ![u] = 0]
           /\ Step(p, Fin(r, "ok"))
        \/ /\ Step(p, Fin(r, "DatabaseError"))
           /\ UNCHANGED <<cuentas, racha>>
    /\ UNCHANGED <<creditos, transferencias, ahora, serial, config, tokens, documentos, cuotas, antes, perdido>>

\* The logins, the status checks and the admin's block and unblock, served one
\* at a time, and the clock.
NextManual ==
    \/ \E p \in Procs : UpdatePassword(p)
    \/ \E p \in Procs : BeginValidateCredentials(p)
    \/ \E p \in Procs : VcIsAccountBlocked(p)
    \/ \E p \in Procs : VcUnblockAccount(p)
    \/ \E p \in Procs : VcGetPasswordHash(p)
    \/ \E p \in Procs : VcRecordRead(p)
    \/ \E p \in Procs : VcRecordUpdate(p)
    \/ \E p \in Procs : VcResetFailedLoginAttempts(p)
    \/ \E p \in Procs : BeginIsAccountBlocked(p)
    \/ \E p \in Procs : IbFindByUserId(p)
    \/ \E p \in Procs : IbUnblockAccount(p)
    \/ \E p \in Procs : BlockAccount(p)
    \/ \E p \in Procs : UnblockAccount(p)
    \/ \E p \in Procs : Return(p)
    \/ Tick

SpecManual == InitSerial /\ [][NextManual]_vars


\* ------------------------------------- CreditsHandler.acceptCreditAndDisburse
\* acceptCreditAndDisburse up to the approveCreditAndDisburse call: the test
\* of the fields; usuario_id is not used after it.
BeginAcceptCreditAndDisburse(p) ==
    /\ CanBegin(p)
    /\ \E id_credito \in CreditIds \cup DOMAIN creditos, usuario_id \in Origenes \cup {"-"} :
        /\ id_credito \in DOMAIN creditos => creditos[id_credito].desembolsos < MaxDesembolsos
        /\ antes' = 0
        /\ LET r == [Idle EXCEPT !.op = "acceptCreditAndDisburse", !.credito = id_credito,
                                 !.inicio = ahora] IN
           IF usuario_id = "-"        \* !usuario_id
           THEN Step(p, Done(r, "ValidationError"))
           ELSE Step(p, [r EXCEPT !.pc = "ap_findCredit"])
    /\ UNCHANGED <<cuentas, creditos, transferencias, ahora, serial, config, tokens, documentos, cuotas, racha, perdido>>

\* The accounts and the credits the requests of a credit's life may find,
\* with the balances in pesos as the principals are: u1 with KYC and declared
\* income, with no balance or with 2000 pesos, and the credit c0 that an
\* earlier requestNormalCredit(u1, 1000, 3 months) created, with its plan.
InitLifecycle ==
    /\ \E saldo \in {0, 2000} :
        cuentas = [u \in Usuarios |->
                     IF u \in Origenes
                     THEN [NuevaCuenta EXCEPT !.kyc_completo = TRUE,
                                              !.kyc_status = APROBADO,
                                              !.limite_transferencia = LimiteConKYC,
                                              !.ingresos_declarados = Some(1000),
                                              !.saldo_disponible = saldo]
                     ELSE NuevaCuenta]
    /\ \E u \in Origenes :
        LET simulation == simulateNormalCredit(1000, 3) IN
        /\ creditos = ("c0" :> [usuario_id |-> u, tipo_credito |-> NORMAL,
                                monto_solicitado |-> 1000,
                                monto_total |-> simulation.monto_total,
                                plazo_dias |-> simulation.plazo_dias,
                                tasa_tea |-> simulation.tasa_tea,
                                estado |-> PREAPPROVED, fecha_desembolso |-> None,
                                cuotas |-> simulation.cuotas_totales, desembolsos |-> 0])
        /\ cuotas = ("c0" :> simulation.plan_cuotas)
    /\ config = [enableExternalScoring |-> FALSE]
    /\ transferencias = <<>>
    /\ proc = [p \in Procs |-> Idle]
    /\ ahora = 0
    /\ serial = TRUE
    /\ antes = 0
    /\ perdido = [u \in Origenes |-> 0]
    /\ racha = [u \in Origenes |-> 0]
    /\ tokens = [t \in {} |-> 0]
    /\ documentos = {}

\* The creation of quick and normal credits and their disbursement.
NextLifecycle ==
    \/ \E p \in Procs : BeginCreateQuickCredit(p)
    \/ \E p \in Procs : BeginRequestNormalCredit(p)
    \/ \E p \in Procs : VnCheckKYCStatus(p)
    \/ \E p \in Procs : VnGetDeclaredIncome(p)
    \/ \E p \in Procs : VnHasDefaultHistory(p)
    \/ \E p \in Procs : VnGetActiveCreditsByUser(p)
    \/ \E p \in Procs : VnGetExternalScore(p)
    \/ \E p \in Procs : CcCreateCredit(p)
    \/ \E p \in Procs : CcCreateInstallmentPlan(p)
    \/ \E p \in Procs : BeginAcceptCreditAndDisburse(p)
    \/ \E p \in Procs : ApFindCredit(p)
    \/ \E p \in Procs : ApGetBalance(p)
    \/ \E p \in Procs : ApUpdateBalance(p)
    \/ \E p \in Procs : ApUpdateCredit(p)
    \/ \E p \in Procs : Return(p)

\* The requests of a credit's life served one at a time.
SpecLifecycle == InitLifecycle /\ [][NextLifecycle]_vars


\* ------------------------------------------- UserAccountsHandler.completeKYC
\* The handler tests usuario_id; UserAccountsService.completeKYC is
\* update(userId, {kyc_completo: true}).
CompleteKYC(p) ==
    /\ CanBegin(p)
    /\ \E usuario_id \in Origenes \cup {"-"} :
        LET r == [Idle EXCEPT !.op = "completeKYC", !.usuario = usuario_id] IN
        IF usuario_id = "-"        \* !usuario_id
        THEN Step(p, Fin(r, "ValidationError")) /\ UNCHANGED cuentas
        ELSE \/ /\ cuentas' = update(usuario_id, [kyc_completo |-> TRUE])
                /\ Step(p, Fin(r, "ok"))
             \/ /\ Step(p, Fin(r, "DatabaseError"))
                /\ UNCHANGED cuentas
    /\ UNCHANGED <<creditos, transferencias, ahora, serial, config, tokens, documentos, cuotas, racha, antes, perdido>>

NextKYCComplete ==
    \/ \E p \in Procs : UploadKYCDocument(p)
    \/ \E p \in Procs : BeginApproveKYC(p)
    \/ \E p \in Procs : AkGetKYCDocuments(p)
    \/ \E p \in Procs : AkUpdateKYCStatus(p)
    \/ \E p \in Procs : AkUpdateTransferLimit(p)
    \/ \E p \in Procs : BeginRejectKYC(p)
    \/ \E p \in Procs : RkUpdateKYCStatus(p)
    \/ \E p \in Procs : CompleteKYC(p)
    \/ \E p \in Procs : Return(p)

\* The KYC requests, completeKYC among them, served one at a time.
SpecKYCComplete == InitSerial /\ [][NextKYCComplete]_vars

\* =================================================================== properties
TransferOps == {"handleTransfer", "executeExternalTransfer"}
InFlight(p) == proc[p].pc \notin {"idle", "done"}
Finished(p, op) == proc[p].op = op /\ proc[p].pc = "done"

\* The account is blocked and its fecha_proximo_intento is still ahead.
Locked(u) ==
    /\ cuentas[u].bloqueado
    /\ cuentas[u].fecha_proximo_intento # None
    /\ ahora < cuentas[u].fecha_proximo_intento[1]

\* C1: approveCreditAndDisburse debits the owner only for a credit it found
\* pre-approved: a second call on the same credit, which finds it in progress,
\* fails with an invalid-state error before the debit, so the principal is
\* debited once and never twice.  (Requests served one at a time.)
C1_SecondDisbursementRejected ==
    \A p \in Procs :
        (proc[p].op = "approveCreditAndDisburse" /\ proc[p].pc = "ap_updateCredit")
            => proc[p].estado = PREAPPROVED

\* C2: when the internal transfer (handleTransfer -> transferFunds) answers
\* "Transfer failed", the origin's balance equals its balance before the call:
\* a debit already made has been re-credited.  (Requests served one at a time.)
C2_FailedTransferRestoresOrigin ==
    \A p \in Procs :
        (Finished(p, "handleTransfer") /\ proc[p].res = "Transfer failed")
            => cuentas[proc[p].usuario].saldo_disponible = antes

\* C3: a transfer (internal or external) whose amount exceeds the remaining
\* daily allowance (limit minus the settled transfers of today) changes no
\* balance and is not answered as a success.  (Requests served one at a time.)
C3_LimitEnforced ==
    [][\A p \in Procs :
          (/\ proc[p].op \in TransferOps
           /\ InFlight(p)
           /\ proc[p].monto > disponible(proc[p].usuario))
          => (/\ cuentas' = cuentas
              /\ proc'[p].res \notin {"transferencia_directa", ACREDITADA})]_vars

\* C4: under any interleaving of balance mutations on one account, the balance
\* equals the initial balance plus the signed sum of the amounts of the
\* mutations that succeeded: the drift between the two is zero, no update is lost.
C4_NoLostUpdate ==
    \A u \in Origenes : perdido[u] = 0

\* C5: approveCreditAndDisburse applies the debit and the status change
\* together: once no disbursement of a credit is in flight, the credit has
\* been debited if and only if its status is in progress with
\* fecha_desembolso stamped, also after a store failure.
C5_DebitAndStatusTogether ==
    \A c \in DOMAIN creditos :
        (\A p \in Procs : ~(InFlight(p) /\ proc[p].credito = c))
            => /\ (creditos[c].desembolsos > 0) <=> (creditos[c].estado = IN_PROGRESS)
               /\ (creditos[c].desembolsos > 0) <=> (creditos[c].fecha_desembolso # None)

\* C6: when executeExternalTransfer returns a failed result (invalid format,
\* inactive destination, insufficient balance, or removeFunds throwing) and no
\* other operation runs on the account, the origin's balance equals its
\* balance before the call.
C6_FailedExternalTransferKeepsBalance ==
    \A p \in Procs :
        (/\ Finished(p, "executeExternalTransfer")
         /\ proc[p].res \notin {ACREDITADA, "External transfer error"})
            => cuentas[proc[p].usuario].saldo_disponible = antes

\* C7: in every reachable state, under any interleaving of addFunds,
\* removeFunds, updateAccountBalance, the transfers and the disbursement,
\* every account's saldo_disponible is at least 0.
C7_BalanceNonNegative ==
    \A u \in DOMAIN cuentas : cuentas[u].saldo_disponible >= 0

\* A removeFunds that succeeded, interleaved with another mutation of the same
\* account (an update was lost), leaving the balance at 0.
C7_Witness ==
    \E p \in Procs :
        /\ Finished(p, "removeFunds")
        /\ proc[p].res = "ok"
        /\ cuentas[proc[p].usuario].saldo_disponible = 0
        /\ perdido[proc[p].usuario] # 0

\* C8: the 5th validateCredentials in a row answered "invalid credentials"
\* leaves the account blocked with fecha_proximo_intento one hour after an
\* instant of that call; and while the account is blocked with that instant
\* ahead, no call gets past the block, even with the right password: a call
\* ends as locked (or with the store's error), save the call that set the block.
C8_LockAfterFiveFailures ==
    \A p \in Procs :
        Finished(p, "validateCredentials") =>
            LET r == proc[p]
                account == cuentas[r.usuario]
                fifth == r.res = "UnauthorizedError" /\ racha[r.usuario] = MaxIntentos IN
            /\ fifth =>
                 /\ account.bloqueado
                 /\ account.fecha_proximo_intento # None
                 /\ account.fecha_proximo_intento[1] - LockTicks \in r.inicio..ahora
            /\ Locked(r.usuario) =>
                 \/ r.res \in {"Account is temporarily locked", "DatabaseError"}
                 \/ fifth

\* A call with the right password is rejected as locked while the block set
\* by five failures is still ahead.
C8_Witness ==
    \E p \in Procs :
        /\ Finished(p, "validateCredentials")
        /\ proc[p].res = "Account is temporarily locked"
        /\ Locked(proc[p].usuario)
        /\ racha[proc[p].usuario] = MaxIntentos
        /\ verifyPassword(proc[p].clave, cuentas[proc[p].usuario].password_hash[1])

\* C9: while the account is locked (blocked, fecha_proximo_intento ahead) no
\* step of a validateCredentials call, with a right or a wrong password,
\* changes fecha_proximo_intento or intentos_fallidos: a 6th attempt does
\* not extend the lock.
C9_LockedCallChangesNothing ==
    [][\A u \in Origenes :
          Locked(u) =>
            /\ cuentas'[u].fecha_proximo_intento = cuentas[u].fecha_proximo_intento
            /\ cuentas'[u].intentos_fallidos = cuentas[u].intentos_fallidos]_vars

\* A 6th attempt with a wrong password was made while locked, and answered.
C9_Witness ==
    \E p \in Procs :
        /\ Finished(p, "validateCredentials")
        /\ proc[p].res = "Account is temporarily locked"
        /\ proc[p].inicio > 0
        /\ Locked(proc[p].usuario)
        /\ cuentas[proc[p].usuario].intentos_fallidos = MaxIntentos
        /\ ~verifyPassword(proc[p].clave, cuentas[proc[p].usuario].password_hash[1])

\* C10: after a successful validateCredentials, intentos_fallidos is 0 and
\* fecha_proximo_intento is cleared.
C10_SuccessResetsAndClears ==
    \A p \in Procs :
        (Finished(p, "validateCredentials") /\ proc[p].res = "ok")
            => /\ cuentas[proc[p].usuario].intentos_fallidos = 0
               /\ cuentas[proc[p].usuario].fecha_proximo_intento = None

\* C11: once fecha_proximo_intento has passed, the first status check
\* (isAccountBlocked as a request of its own, not a login) answers "not
\* blocked" and leaves the account with bloqueado = false and
\* intentos_fallidos = 0, unless the store fails; and a login is answered
\* "temporarily locked" only while fecha_proximo_intento is still ahead of the
\* instant the login began, so that after the lock has passed a login with the
\* right password is let through.  (Requests served one at a time.)
C11_ExpiredLockClearsOnStatusCheck ==
    \A p \in Procs :
        LET r == proc[p]
            account == cuentas[r.usuario] IN
        /\ (Finished(p, "isAccountBlocked") /\ r.bloqueo = "vencido") =>
              \/ /\ r.res = "false"
                 /\ ~account.bloqueado
                 /\ account.intentos_fallidos = 0
              \/ r.res = "DatabaseError"
        /\ (Finished(p, "validateCredentials") /\ r.res = "Account is temporarily locked") =>
              /\ account.fecha_proximo_intento # None
              /\ account.fecha_proximo_intento[1] > r.inicio

\* A status check found the lock set by five failed logins expired, and
\* cleared it.
C11_Witness ==
    \E p \in Procs :
        /\ Finished(p, "isAccountBlocked")
        /\ proc[p].bloqueo = "vencido"
        /\ proc[p].res = "false"
        /\ ~cuentas[proc[p].usuario].bloqueado
        /\ cuentas[proc[p].usuario].fecha_proximo_intento # None
        /\ cuentas[proc[p].usuario].fecha_proximo_intento[1] <= proc[p].inicio

\* C12: updatePasswordWithResetToken checks the token before the format of the
\* new password: a call that presents a token expired or already used when it
\* began ends with the invalid-token error (or the store's error), whether or
\* not the new password has 8 characters.  (Requests served one at a time.)
C12_TokenCheckedFirst ==
    \A p \in Procs :
        (/\ Finished(p, "updatePasswordWithResetToken")
         /\ proc[p].estado \in {"vencido", "utilizado"})
            => proc[p].res \in {InvalidToken, "DatabaseError"}

\* C13: a call of updatePasswordWithResetToken whose token was, when the call
\* began, older than 24 hours, already used, or unknown, changes no account
\* (password_hash included) and no token record in any of its steps, and ends
\* in an error even when the new password is well formed.  (Requests served
\* one at a time.)
C13_InvalidTokenChangesNothing ==
    [][\A p \in Procs :
          (/\ proc[p].op = "updatePasswordWithResetToken"
           /\ InFlight(p)
           /\ proc[p].estado # "vigente")
          => (/\ cuentas' = cuentas
              /\ tokens' = tokens
              /\ proc'[p].pc = "done" => proc'[p].res \in {InvalidToken, "DatabaseError"})]_vars

\* A call with a well-formed password and a token older than 24 hours, never
\* used, was answered with the invalid-token error.
C13_Witness ==
    \E p \in Procs :
        /\ Finished(p, "updatePasswordWithResetToken")
        /\ proc[p].estado = "vencido"
        /\ Len(proc[p].clave) >= 8
        /\ proc[p].res = InvalidToken
        /\ ~tokens[proc[p].token].utilizado
        /\ tokens[proc[p].token].fecha_vencimiento <= proc[p].inicio

\* C14: a reset token is single-use: under any interleaving of the
\* updatePasswordWithResetToken calls that present it, at most one call
\* changes the password.
C14_TokenSingleUse ==
    \A t \in DOMAIN tokens : tokens[t].usos <= 1

\* C15: approveKYC on an account that lacks a 'dni' document or a 'selfie'
\* document changes no account (kyc_status, kyc_completo and
\* limite_transferencia included) and ends with the validation error (or the
\* store's error); with both kinds present the document test lets it through
\* whatever the estado_validacion of the documents, it never ends with the
\* validation error, and when it ends well the account is approved.
\* (Requests served one at a time.)
C15_ApprovalNeedsDniAndSelfie ==
    [][\A p \in Procs :
          LET r == proc[p]
              docs == {d \in documentos : d.usuario_id = r.usuario}
              ambos == /\ \E d \in docs : d.tipo_documento = "dni"
                       /\ \E d \in docs : d.tipo_documento = "selfie" IN
          (r.op = "approveKYC" /\ InFlight(p) /\ proc'[p] # r) =>
             /\ ~ambos =>
                  /\ cuentas' = cuentas
                  /\ proc'[p].pc = "done"
                  /\ proc'[p].res \in {"ValidationError", "DatabaseError"}
             /\ ambos =>
                  /\ proc'[p].res # "ValidationError"
                  /\ proc'[p].res = "ok" =>
                       /\ cuentas'[r.usuario].kyc_status = APROBADO
                       /\ cuentas'[r.usuario].kyc_completo]_vars

\* An approval was refused for an account with a dni document and no selfie.
C15_Witness ==
    \E p \in Procs :
        /\ Finished(p, "approveKYC")
        /\ proc[p].res = "ValidationError"
        /\ \E d \in documentos :
              d.usuario_id = proc[p].usuario /\ d.tipo_documento = "dni"
        /\ \A d \in documentos :
              d.usuario_id = proc[p].usuario => d.tipo_documento # "selfie"
        /\ cuentas[proc[p].usuario].kyc_status = PENDIENTE

\* C16: approveKYC makes kyc_status aprobado and limite_transferencia 50000 in
\* one write: in no reachable state, between the store calls of concurrent
\* requests or after a store call has failed, is an account aprobado with a
\* limite_transferencia other than 50000 (or with kyc_completo false).
C16_ApprovedWithLimit ==
    \A u \in DOMAIN cuentas :
        cuentas[u].kyc_status = APROBADO =>
            /\ cuentas[u].limite_transferencia = LimiteConKYC
            /\ cuentas[u].kyc_completo

\* An approval whose second store call (updateTransferLimit) failed: the
\* account is aprobado.
C16_Witness ==
    \E p \in Procs :
        /\ Finished(p, "approveKYC")
        /\ proc[p].res = "DatabaseError"
        /\ cuentas[proc[p].usuario].kyc_status = APROBADO

PlazosNormalValidos == {3 * 30, 6 * 30, 9 * 30, 12 * 30}

\* C18: createQuickCredit with a term outside {30, 60, 90} days and
\* createNormalCredit with a term outside {3, 6, 9, 12} months end with the
\* invalid-term error and create no credit record and no installment record.
C18_InvalidTermCreatesNothing ==
    \A p \in Procs :
        LET r == proc[p]
            fuera == \/ r.op = "createQuickCredit" /\ r.plazo \notin {30, 60, 90}
                     \/ r.op = "createNormalCredit" /\ r.plazo \notin PlazosNormalValidos IN
        (r.op \in {"createQuickCredit", "createNormalCredit"} /\ fuera) =>
            /\ r.pc \in {"idle", "done"}
            /\ r.credito = "-"
            /\ r.pc = "done" => r.res \in {InvalidTermQuick, InvalidTermNormal,
                                           "Invalid credit type"}

\* C19: for every offered (product, term) and every principal, the importes
\* of the plan the simulation returns sum exactly to its monto_total, the
\* value stored as the credit's total.
C19_PlanSumsToTotal ==
    \A p \in Procs :
        proc[p].simulacion # None =>
            SumSeq(proc[p].simulacion[1].plan_cuotas)
                = <<proc[p].simulacion[1].monto_total, 0>>

\* What validateQuickCreditEligibility is to answer for the account of u at
\* the age of edad days: the reason of the first rule that fails, in the
\* order KYC, age, default history, debt-to-income ratio.
Esperado(u, edad) ==
    LET account == cuentas[u]
        activos == {c \in DOMAIN creditos : /\ creditos[c].usuario_id = u
                                            /\ creditos[c].estado \in {IN_PROGRESS, DEFAULT}}
        income == IF account.ingresos_declarados = None THEN 0
                  ELSE account.ingresos_declarados[1]
        debt == totalMonthlyDebt(activos) IN
    IF ~account.kyc_completo THEN KYCNotCompleted
    ELSE IF edad < 30 THEN AccountTooYoung
    ELSE IF account.historial_mora THEN HasDefaultHistory
    ELSE IF income # 0 /\ debt * 100 > 40 * income * 12 THEN RatioExceeded
    ELSE "eligible"

C21_NormalEligibilityRules ==
    \A p \in Procs :
        (/\ proc[p].pc = "done"
         /\ proc[p].op = "validateNormalCreditEligibility"
         /\ proc[p].res # CheckFailed)
        => LET a == cuentas[proc[p].usuario] IN
           (proc[p].res = "eligible") <=>
               /\ a.kyc_completo
               /\ a.ingresos_declarados # None /\ a.ingresos_declarados[1] > 0
               /\ ~a.historial_mora
               /\ ~\E c \in DOMAIN creditos :
                      /\ creditos[c].usuario_id = proc[p].usuario
                      /\ creditos[c].estado \in {IN_PROGRESS, DEFAULT}
               /\ config.enableExternalScoring
                     => (a.score_externo # None /\ a.score_externo[1] >= 50)

C21_Witness ==
    \E p \in Procs :
        /\ proc[p].pc = "done"
        /\ proc[p].op = "validateNormalCreditEligibility"
        /\ proc[p].res = "eligible"
        /\ config.enableExternalScoring
        /\ cuentas[proc[p].usuario].score_externo = Some(50)
        /\ \E c \in DOMAIN creditos : creditos[c].estado = PAID

\* C22: an eligibility check returns a denial (es_elegible = false) only for a
\* violated acceptance rule: no finished validateQuickCreditEligibility or
\* validateNormalCreditEligibility call has returned the denial whose reason is
\* the failure of the check itself (a missing account, a failed store read).
C22_FaultIsNotDenial ==
    \A p \in Procs :
        (/\ proc[p].pc = "done"
         /\ proc[p].op \in {"validateQuickCreditEligibility",
                            "validateNormalCreditEligibility"})
        => proc[p].res # CheckFailed

\* C23: no row of creditos has a principal above the ceiling of its product:
\* monto_solicitado is at most 50000 for a quick credit and at most 250000
\* for a normal credit.
C23_PrincipalWithinCeiling ==
    \A c \in DOMAIN creditos :
        /\ creditos[c].tipo_credito = QUICK
              => creditos[c].monto_solicitado <= quickCreditMaxAmount
        /\ creditos[c].tipo_credito = NORMAL
              => creditos[c].monto_solicitado <= normalCreditMaxAmount

\* C24: every row of creditos created through requestQuickCredit or
\* requestNormalCredit has monto_total >= monto_solicitado.
C24_TotalAtLeastPrincipal ==
    \A c \in DOMAIN creditos : creditos[c].monto_total >= creditos[c].monto_solicitado

\* The place of a status on the chain PreApproved -> InProgress -> {Paid,
\* Default, Canceled}.
Rango(estado) ==
    CASE estado = PREAPPROVED -> 0
      [] estado = IN_PROGRESS -> 1
      [] OTHER -> 2

C26_FraudFactors ==
    \A p \in Procs :
        (/\ proc[p].pc = "done"
         /\ proc[p].op = "performFraudCheck"
         /\ proc[p].res = "ok")
        => LET u == proc[p].usuario
               tipos == {f.tipo : f \in proc[p].fraudRisks}
               hoy == {i \in DOMAIN transferencias :
                          /\ transferencias[i].usuario_id_origen = u
                          /\ transferencias[i].estado = ACREDITADA}
               nueva == /\ (ahora - cuentas[u].fecha_registro) \div DiaTicks < 30
                        /\ proc[p].monto > 5000
               frecuente == Cardinality(hoy) > 10
               mora == cuentas[u].historial_mora IN
           /\ ("cuenta_nueva_monto_alto" \in tipos) <=> nueva
           /\ ("transferencias_frecuentes" \in tipos) <=> frecuente
           /\ ("historial_mora" \in tipos) <=> mora
           /\ \A f \in proc[p].fraudRisks :
                 f.severity = IF f.tipo = "cuenta_nueva_monto_alto" THEN "media" ELSE "alta"
           /\ requiere_verificacion(proc[p].fraudRisks) <=> (frecuente \/ mora)

C26_Witness ==
    \E p \in Procs :
        /\ proc[p].pc = "done"
        /\ proc[p].op = "performFraudCheck"
        /\ proc[p].res = "ok"
        /\ proc[p].monto = 6000
        /\ proc[p].fraudRisks = {cuenta_nueva_monto_alto}
        /\ ~requiere_verificacion(proc[p].fraudRisks)
        /\ Len(transferencias) = 11

\* The destination, its whitespace removed, is 22 digits or 10 digits.
FormatoValido(cuenta) == IsDigits(Clean(cuenta), 22) \/ IsDigits(Clean(cuenta), 10)

FormatReasons ==
    {"CBU must be 22 digits", "CVU must be 10 digits",
     "Account number must be 22 digits (CBU) or 10 digits (CVU)"}

\* C27: validateExternalAccount accepts a destination exactly when, its
\* whitespace removed, it is 22 digits or 10 digits, whatever the bank code of
\* a 22-digit one; and an executeExternalTransfer to a destination it does not
\* accept is answered at once with an invalid-format reason, no balance read
\* or written: the origin's balance is the one before the call.
C27_InvalidFormatRejectedFirst ==
    /\ \A c \in CuentasExternas : validateExternalAccount(c).es_valido <=> FormatoValido(c)
    /\ \A p \in Procs :
        (/\ proc[p].op = "executeExternalTransfer"
         /\ proc[p].cbu # <<>>
         /\ ~FormatoValido(proc[p].cbu))
        => /\ proc[p].pc = "done"
           /\ proc[p].res \in FormatReasons
           /\ cuentas[proc[p].usuario].saldo_disponible = antes
           /\ perdido[proc[p].usuario] = 0

C27_Witness ==
    /\ \E c \in CuentasExternas :
          /\ Len(Clean(c)) = 22
          /\ validateExternalAccount(c).es_valido
          /\ validateExternalAccount(c).banco = "Banco Desconocido"
    /\ \E p \in Procs :
          /\ Finished(p, "executeExternalTransfer")
          /\ proc[p].cbu = Rep("9", 9)
          /\ proc[p].res \in FormatReasons
          /\ antes > 0

\* C28: an executeExternalTransfer to a destination of the static blocklist is
\* answered 'Destination account is inactive' and leaves the origin's balance
\* as it was before the call.
C28_BlockedDestinationInactive ==
    \A p \in Procs :
        (/\ Finished(p, "executeExternalTransfer")
         /\ proc[p].cbu \in blockedAccounts)
        => /\ proc[p].res = "Destination account is inactive"
           /\ cuentas[proc[p].usuario].saldo_disponible = antes

\* C29: a transfer that succeeded has left a settled Transfer record: with no
\* transfer on file when the run began, once a transfer of the origin has been
\* answered as done the origin's settled-transfers-today count is at least 1
\* and its used-today total at least the smallest amount.
C29_TransferRecorded ==
    \A p \in Procs :
        (/\ proc[p].pc = "done"
         /\ proc[p].op \in TransferOps
         /\ proc[p].res \in {"transferencia_directa", ACREDITADA})
        => /\ getDailyTransferCount(proc[p].usuario) >= 1
           /\ getDailyTransferTotal(proc[p].usuario) >= 1

\* C30: a confirmTransferWithCredit that confirms an offer (the balance short
\* of monto_destino, the credit preaprobado and for the shortfall) and whose
\* store calls all succeed disburses the credit and completes the transfer.
C30_FlowCompletes ==
    \A p \in Procs :
        (/\ proc[p].pc = "done"
         /\ proc[p].op = "confirmTransferWithCredit"
         /\ proc[p].oferta)
        => proc[p].res \in {"transferencia_con_credito", "DatabaseError", "Transfer failed"}

\* C31: a normal credit is available for every term validateTerm accepts for
\* it (3, 6, 9 and 12 months): simulateNormalCredit has a rate for the term,
\* and createNormalCredit for that many months of 30 days never ends with the
\* invalid-term error.
C31_EveryNormalTermOffered ==
    /\ \A termMonths \in 1..12 :
          validateTerm(termMonths, NORMAL).es_elegible =>
              termMonths \in DOMAIN normalCreditRates
    /\ \A p \in Procs :
          LET r == proc[p] IN
          (/\ r.op = "createNormalCredit"
           /\ r.tipo = NORMAL
           /\ r.plazo % 30 = 0
           /\ validateTerm(r.plazo \div 30, NORMAL).es_elegible
           /\ r.pc = "done") => r.res # InvalidTermNormal

C33_ManualBlockStays ==
    \A u \in Origenes : cuentas[u].bloqueo_manual => cuentas[u].bloqueado

\* C34: in every reachable state an account whose kyc_status is rejected is
\* on the tier of the accounts without KYC: its transfer limit is 10 000 (no
\* request of these runs is the admin's updateTransferLimit).
C34_RejectedOnUnapprovedTier ==
    \A u \in Origenes :
        cuentas[u].kyc_status = RECHAZADO =>
            cuentas[u].limite_transferencia = LimiteSinKYC

\* C35: every credit in progress has its installment plan on file, inserted
\* as one set when the credit was created: as many installments as the
\* credit's cuotas, numbered 1..N, also after a store failure during creation.
C35_InProgressHasPlan ==
    \A c \in DOMAIN creditos :
        creditos[c].estado = IN_PROGRESS =>
            /\ c \in DOMAIN cuotas
            /\ DOMAIN cuotas[c] = 1..creditos[c].cuotas

\* C36: under concurrent logins with wrong passwords on one account, no more
\* than five failed logins are recorded between two resets of the counter, and
\* intentos_fallidos equals the number of failed logins recorded since the
\* last reset: no increment is lost.
C36_LockoutBoundsGuessing ==
    \A u \in Origenes :
        /\ racha[u] <= MaxIntentos
        /\ cuentas[u].intentos_fallidos = racha[u]

\* C37: in every reachable state, whichever of completeKYC, approveKYC and
\* rejectKYC were called and in whatever order, kyc_completo is true exactly
\* when kyc_status is approved, and only for an account with a 'dni' and a
\* 'selfie' document on file.
C37_CompletoIffApproved ==
    \A u \in Origenes :
        /\ cuentas[u].kyc_completo <=> cuentas[u].kyc_status = APROBADO
        /\ cuentas[u].kyc_completo =>
               (\E d \in documentos : d.usuario_id = u /\ d.tipo_documento = "dni")
            /\ (\E d \in documentos : d.usuario_id = u /\ d.tipo_documento = "selfie")

\* C38: updatePasswordWithResetToken marks the token used exactly when it
\* updated the password: a call that presented a valid unused token and
\* failed, at whatever step, leaves the token unused, to be presented again.
\* (Requests served one at a time.)
C38_TokenUsedIffPasswordUpdated ==
    \A p \in Procs :
        (/\ Finished(p, "updatePasswordWithResetToken")
         /\ proc[p].estado = "vigente")
        => (tokens[proc[p].token].utilizado <=> proc[p].res = "ok")

\* C39: confirmTransferWithCredit is all or nothing: when it confirms an
\* offer (the user's own pre-approved credit) and the transfer step fails after
\* the credit was disbursed, the disbursement is taken back: the credit is
\* pre-approved and the user's balance is what it was before the call.
\* (Requests served one at a time.)
C39_ConfirmAllOrNothing ==
    \A p \in Procs :
        (/\ Finished(p, "confirmTransferWithCredit")
         /\ proc[p].oferta
         /\ proc[p].res = "Transfer failed")
        => /\ creditos[proc[p].credito].estado = PREAPPROVED
           /\ cuentas[proc[p].usuario].saldo_disponible = antes

\* C40: no account has two normal credits in progress at the same time, for
\* any sequence of requestNormalCredit and acceptCreditAndDisburse calls: the
\* rule of the request, no credit in progress or in default, still holds of
\* the user's other credits when a normal credit is disbursed.
C40_OneNormalCreditInProgress ==
    \A u \in Origenes :
        Cardinality({c \in DOMAIN creditos : /\ creditos[c].usuario_id = u
                                             /\ creditos[c].tipo_credito = NORMAL
                                             /\ creditos[c].estado = IN_PROGRESS}) <= 1
====
